---- MODULE Spec2Model ----
(***************************************************************************)
(* Model of the hybrid retrieval and answer-orchestration engine of        *)
(* llama-rag-engine: HybridRetriever (core/retrieval/hybrid_retrieval.py), *)
(* RAGEngine (core/rag/rag_engine.py), QueryExpander.expand_query          *)
(* (core/query/query_expander.py) and OllamaClient.generate                *)
(* (core/ollama/ollama_client.py).                                         *)
(*                                                                         *)
(* Numbers.  Temperatures and relevance scores are held in hundredths      *)
(* (0.7 is 70).  Fused retrieval scores are held in hundredths as well     *)
(* (weight 0.7 is 70); raw retriever scores are small integers chosen so   *)
(* that score / max * weight is exact.  Binary floating point rounding is  *)
(* not modelled.                                                           *)
(***************************************************************************)
EXTENDS Integers, Sequences, FiniteSets, Bags, TLC

VARIABLES
    documents,      \* HybridRetriever.documents
    bm25,           \* HybridRetriever.bm25: not built (None), or built over a corpus
    hs,             \* the last hybrid_search call: its inputs and what it returned
    gc,             \* one RAGEngine._get_contexts call: its position and locals
    temperature,    \* RAGEngine.temperature
    metrics,        \* RAGEngine.metrics
    calls,          \* the answer_question coroutines in flight on the event loop
    engine,         \* what the engine was constructed with and how many calls it got
    collection,     \* VectorStore.collection: None, or the content of the Chroma collection
    redis,          \* the Redis store behind VectorStore.redis_client: its live entries
    now,            \* time.time(), in seconds
    ss,             \* the VectorStore.search coroutines waiting for the collection, a bag
    sr,             \* what a VectorStore.search call returns, until its caller takes it
    dbret,          \* history: the first and the latest database result a search returned
                    \* in the last CacheTTL seconds
    fq,             \* the last QueryExpander.filter_similar_queries call
    xq,             \* the last QueryExpander.expand_query call
    ec,             \* QueryExpander.expansion_cache and the generate_semantic_variations calls
    pd,             \* the process_document and add_embeddings calls made so far
    pm,             \* what get_performance_metrics returns, until its caller takes it
    wt,             \* the file-watcher thread in index_documents and the sparse part of
                    \* a hybrid_search on the event loop's thread
    sv,             \* the ApplicationSupervisor, its two threads and the child processes
    ck              \* the PDFProcessor._create_chunks call

retrieverVars == <<documents, bm25, hs>>
engineVars == <<temperature, metrics, calls, engine>>
storeVars == <<collection, redis, now, ss, sr, dbret>>
expanderVars == <<fq, xq, ec>>
ingestVars == <<pd>>
reportVars == <<pm>>
processVars == <<wt, sv, ck>>
vars == <<documents, bm25, hs, gc, temperature, metrics, calls, engine,
          collection, redis, now, ss, sr, dbret, fq, xq, ec, pd, pm, wt, sv, ck>>

\* ------------------------------------------------------------------------
\* Bounds of the model
\* ------------------------------------------------------------------------
MaxCalls == 2
MaxResults == 2
MaxK == 2
MaxDocs == 2
MaxVariations == 2
MaxSearches == 2
MaxTicks == 3
MaxAdds == 1
MaxLines == 6
MaxQueries == 3

\* ------------------------------------------------------------------------
\* Program constants
\* ------------------------------------------------------------------------
dense_weight == 70
sparse_weight == 30
TempFloor == 10
TempCeil == 100
TempStep == 10
LowRelevance == 50
HighRelevance == 80
DefaultTemperature == 70
DefaultMaxContexts == 3
DefaultK == 5
max_expansions == 5
StopAfterAttempt == 3
CacheTTL == 300

None == "None"

Max(a, b) == IF a >= b THEN a ELSE b
Min(a, b) == IF a <= b THEN a ELSE b

Range(s) == {s[i] : i \in 1..Len(s)}

\* All sequences over S of length at most n.
SeqsUpTo(S, n) == UNION {[1..m -> S] : m \in 0..n}

\* ------------------------------------------------------------------------
\* Generic list helpers used by the retrieval code
\* ------------------------------------------------------------------------

\* s[:n] for n >= 0
Take(s, n) == IF n >= Len(s) THEN s ELSE SubSeq(s, 1, n)

\* Insert entry e into the list s, already sorted by score descending, after
\* every entry whose score is >= e.score: Python's sorted(..., reverse=True)
\* is stable, entries with equal scores keep their original order.
RECURSIVE InsertDesc(_, _)
InsertDesc(s, e) ==
    IF s = <<>> THEN <<e>>
    ELSE IF Head(s).score >= e.score THEN <<Head(s)>> \o InsertDesc(Tail(s), e)
    ELSE <<e>> \o s

RECURSIVE SortedDesc(_)
SortedDesc(s) ==
    IF s = <<>> THEN <<>>
    ELSE InsertDesc(SortedDesc(SubSeq(s, 1, Len(s) - 1)), s[Len(s)])

\* ------------------------------------------------------------------------
\* HybridRetriever
\* ------------------------------------------------------------------------

\* score / max(max_score, 1e-10) * weight for one score, without the clip
NormalizeOne_unclipped(score, max_score, weight) ==
    (score * weight) \div (IF max_score <= 0 THEN 1 ELSE max_score)

\* clip(score / max(max_score, 1e-10), 0, 1) * weight for one score
NormalizeOne(score, max_score, weight) ==
    IF max_score <= 0
    THEN (IF score > 0 THEN weight ELSE 0)
    ELSE IF score <= 0 THEN 0
    ELSE IF score >= max_score THEN weight
    ELSE (score * weight) \div max_score

_safe_normalize_scores(scores, max_score, weight) ==
    [i \in 1..Len(scores) |-> NormalizeOne(scores[i], max_score, weight)]

RECURSIVE MaxOfSeq(_)
MaxOfSeq(s) == IF Len(s) = 1 THEN s[1] ELSE Max(s[1], MaxOfSeq(Tail(s)))

\* max(scores) if scores else 1.0
MaxScore(scores) == IF scores = <<>> THEN 1 ELSE MaxOfSeq(scores)

\* combined_results[doc] = combined_results.get(doc, 0) + norm_score, on an
\* insertion-ordered dict held as a list of [document, score] entries.
RECURSIVE DictAdd(_, _, _)
DictAdd(d, doc, x) ==
    IF d = <<>> THEN <<[document |-> doc, score |-> x]>>
    ELSE IF Head(d).document = doc
         THEN <<[document |-> doc, score |-> Head(d).score + x]>> \o Tail(d)
         ELSE <<Head(d)>> \o DictAdd(Tail(d), doc, x)

RECURSIVE Combine(_, _, _)
Combine(d, results, norm) ==
    IF results = <<>> THEN d
    ELSE Combine(DictAdd(d, Head(results).document, Head(norm)),
                 Tail(results), Tail(norm))

\* np.argsort(bm25_scores): indices by ascending score, equal scores in
\* index order.
RECURSIVE InsertAsc(_, _, _)
InsertAsc(idx, i, sc) ==
    IF idx = <<>> THEN <<i>>
    ELSE IF sc[Head(idx)] <= sc[i] THEN <<Head(idx)>> \o InsertAsc(Tail(idx), i, sc)
    ELSE <<i>> \o idx

RECURSIVE ArgSortUpTo(_, _)
ArgSortUpTo(sc, n) ==
    IF n = 0 THEN <<>> ELSE InsertAsc(ArgSortUpTo(sc, n - 1), n, sc)

ArgSort(sc) == ArgSortUpTo(sc, Len(sc))

Reverse(s) == [i \in 1..Len(s) |-> s[Len(s) + 1 - i]]

\* s[-k:] for k >= 1
LastK(s, k) == IF k >= Len(s) THEN s ELSE SubSeq(s, Len(s) - k + 1, Len(s))

\* sparse_results: the k best-scored indexed documents, best first
SparseResults(docs, bm25_scores, k) ==
    LET top_sparse_indices == Reverse(LastK(ArgSort(bm25_scores), k))
    IN  [j \in 1..Len(top_sparse_indices) |->
            [document |-> docs[top_sparse_indices[j]],
             score |-> bm25_scores[top_sparse_indices[j]]]]

Scores(results) == [i \in 1..Len(results) |-> results[i].score]

NormalizedDense(dense_results) ==
    _safe_normalize_scores(Scores(dense_results), MaxScore(Scores(dense_results)), dense_weight)

NormalizedSparse(sparse_results) ==
    _safe_normalize_scores(Scores(sparse_results), MaxScore(Scores(sparse_results)), sparse_weight)

\* combined_results after the two loops: the dense contributions, then the
\* sparse ones, accumulated by document text
combined_results(dense_results, sparse_results) ==
    Combine(Combine(<<>>, dense_results, NormalizedDense(dense_results)),
            sparse_results, NormalizedSparse(sparse_results))

\* The merged entries cut to k in insertion order, without the sort
Fuse_unsorted(dense_results, sparse_results, k) ==
    Take(combined_results(dense_results, sparse_results), k)

\* The body of hybrid_search once both result lists are known.
Fuse(dense_results, sparse_results, k) ==
    Take(SortedDesc(combined_results(dense_results, sparse_results)), k)

\* hybrid_search: bm25 is None before index_documents, the attribute error is
\* caught by the handler and an empty list is returned.
hybrid_search(index, dense_results, bm25_scores, k) ==
    IF ~index.bm25.built THEN <<>>
    ELSE Fuse(dense_results, SparseResults(index.documents, bm25_scores, k), k)

\* The exception the try block of hybrid_search runs into: self.bm25 is None
\* before index_documents, and None has no get_scores.
Caught(index) == IF ~index.bm25.built THEN "AttributeError" ELSE None

\* The exception hybrid_search lets out to its caller: the handler catches
\* every Exception, logs it and returns [].
Raised(index) == None

\* Document texts and raw retriever scores the model draws its inputs from.
Docs == {"d1", "d2"}
RawScores == {-1, 0, 1, 2}
Results == [document : Docs, score : RawScores]
ResultLists == SeqsUpTo(Results, MaxResults)

NoCall == [pc |-> "none"]

\* Nullable values of a response: None, or a value
Null == <<>>
Some(x) == <<x>>

Calls == 1..MaxCalls
IdleCall == [pc |-> "idle"]

\* self.metrics of the constructor
NoMetrics ==
    [avg_response_time |-> <<>>,
     avg_relevance_score |-> <<>>,
     temp_adjustments |-> <<>>,
     total_documents |-> 0,
     failed_queries |-> 0,
     successful_queries |-> 0]

\* self.bm25 = None of the constructor
NoIndex == [built |-> FALSE, corpus |-> <<>>]

\* self.collection = None of the VectorStore constructor
NoCollection == [created |-> FALSE, items |-> <<>>]

\* No search has returned a database result in the last CacheTTL seconds
NoReturns == [first |-> Null, last |-> Null]

\* The vector store as constructed, before initialize(): no collection, an
\* empty cache, no search in flight
StoreIdle ==
    /\ collection = NoCollection
    /\ redis = {}
    /\ now = 0
    /\ ss = EmptyBag
    /\ sr = NoCall
    /\ dbret = NoReturns

\* self.expansion_cache = OrderedDict() and no generate_semantic_variations
\* call made: the cache is the sequence of its items in insertion order;
\* inserted and backend count the keys inserted and the _call_ollama calls
NoExpansions ==
    [cache |-> <<>>, inflight |-> EmptyBag, ret |-> NoCall,
     started |-> 0, inserted |-> 0, backend |-> 0]

\* No call of the query expander has been made
ExpanderIdle ==
    /\ fq = NoCall
    /\ xq = NoCall
    /\ ec = NoExpansions

\* The watcher thread is idle and no sparse search is under way
NoWatcher == [pc |-> "idle", search |-> NoCall, started |-> 0]

\* ApplicationSupervisor.__init__: self.process = None, should_run = True,
\* restart_count = 0; run() is at the head of its loop, no child was started
NoSupervisor ==
    [process |-> Null, should_run |-> TRUE, restart_count |-> 0,
     alive |-> {}, started |-> 0, main |-> "loop", watcher |-> "idle", events |-> 0]

\* No _create_chunks call is under way
NoChunking == [pc |-> "none"]

ProcessIdle ==
    /\ wt = NoWatcher
    /\ sv = NoSupervisor
    /\ ck = NoChunking

\* No document has been ingested and no metrics have been asked for
IngestIdle ==
    /\ pd = [started |-> 0, inflight |-> EmptyBag, ret |-> NoCall, written |-> {}]
    /\ pm = NoCall
    /\ ProcessIdle

RetrieverInit ==
    /\ documents = <<>>
    /\ bm25 = NoIndex
    /\ hs = NoCall
    /\ gc = NoCall
    /\ temperature = DefaultTemperature
    /\ metrics = NoMetrics
    /\ calls = [c \in Calls |-> IdleCall]
    /\ engine = [temperature |-> DefaultTemperature, started |-> 0, graded |-> 0,
                 cancelled |-> 0]
    /\ StoreIdle
    /\ ExpanderIdle
    /\ IngestIdle

\* index_documents(documents), called by process_document with the non-empty
\* chunk list of one document: the new list replaces the old one.
index_documents(docs) ==
    /\ documents' = docs
    /\ bm25' = [built |-> TRUE, corpus |-> docs]
    /\ UNCHANGED <<hs, gc>>
    /\ UNCHANGED <<engineVars, storeVars, expanderVars, ingestVars, reportVars, processVars>>

IndexDocuments ==
    /\ hs.pc = "none"
    /\ \E docs \in SeqsUpTo(Docs, MaxDocs) \ {<<>>} : index_documents(docs)

\* One hybrid_search(query, k) call.  dense_results is what
\* vector_store.search returned, bm25_scores what bm25.get_scores returned
\* (one score per indexed document).  hs keeps the call's inputs and its
\* return value until the caller has taken it.
HybridSearch ==
    /\ hs.pc = "none"
    /\ \E dense_results \in ResultLists, k \in 1..MaxK :
        \E bm25_scores \in [1..Len(documents) -> RawScores] :
            /\ hs' = [pc |-> "returned",
                      k |-> k,
                      indexed |-> bm25.built,
                      caught |-> Caught([bm25 |-> bm25, documents |-> documents]),
                      raised |-> Raised([bm25 |-> bm25, documents |-> documents]),
                      dense_results |-> dense_results,
                      sparse_results |->
                          IF ~bm25.built THEN <<>>
                          ELSE SparseResults(documents, bm25_scores, k),
                      out |-> hybrid_search([bm25 |-> bm25, documents |-> documents],
                                            dense_results, bm25_scores, k)]
            /\ UNCHANGED <<documents, bm25, gc>>
            /\ UNCHANGED <<engineVars, storeVars, expanderVars, ingestVars, reportVars, processVars>>

\* The caller takes the returned list.
HybridSearchTaken ==
    /\ hs.pc = "returned"
    /\ hs' = NoCall
    /\ UNCHANGED <<documents, bm25, gc>>
    /\ UNCHANGED <<engineVars, storeVars, expanderVars, ingestVars, reportVars, processVars>>

RetrieverNext == IndexDocuments \/ HybridSearch \/ HybridSearchTaken

SpecFusion == RetrieverInit /\ [][RetrieverNext]_vars

\* C10: a document present in both result lists gets a fused score equal to
\* the sum of its normalized dense and sparse contributions, and every fused
\* score returned by hybrid_search lies in [0, 1].
C10_FusionAdditiveAndBounded ==
    hs.pc = "returned" =>
        /\ \A e \in Range(hs.out) : e.score >= 0 /\ e.score <= dense_weight + sparse_weight
        /\ \A i \in 1..Len(hs.dense_results), j \in 1..Len(hs.sparse_results) :
              hs.dense_results[i].document = hs.sparse_results[j].document =>
                \A e \in Range(hs.out) :
                    e.document = hs.dense_results[i].document =>
                        e.score = NormalizedDense(hs.dense_results)[i]
                                  + NormalizedSparse(hs.sparse_results)[j]

\* The entries hybrid_search merged before it sorted and cut them
Merged ==
    IF hs.indexed THEN combined_results(hs.dense_results, hs.sparse_results) ELSE <<>>

\* C11: hybrid_search(query, k) returns at most k of the merged entries, with
\* pairwise distinct document texts, in non-increasing order of fused score,
\* and no merged document that is left out has a fused score strictly greater
\* than a returned one.
C11_TopKDistinctSorted ==
    hs.pc = "returned" =>
        /\ Len(hs.out) <= hs.k
        /\ Range(hs.out) \subseteq Range(Merged)
        /\ \A i, j \in 1..Len(hs.out) :
              hs.out[i].document = hs.out[j].document => i = j
        /\ \A i \in 1..(Len(hs.out) - 1) : hs.out[i].score >= hs.out[i + 1].score
        /\ \A m \in Range(Merged) :
              (\A e \in Range(hs.out) : e.document # m.document) =>
                  \A e \in Range(hs.out) : m.score <= e.score

\* Two documents were merged, the second with the greater fused score, and
\* the call with k = 1 returned the second alone.
C11_Witness ==
    /\ hs.pc = "returned"
    /\ hs.indexed
    /\ hs.k = 1
    /\ Len(Merged) = 2
    /\ Merged[1].score < Merged[2].score
    /\ hs.out = <<Merged[2]>>

\* The entries of one result list alone, each with its normalized and
\* weighted score, cut to k
PassedThrough(results, normalized, k) ==
    Take([i \in 1..Len(results) |->
             [document |-> results[i].document, score |-> normalized[i]]], k)

\* C12: with the lexical index built, if the sparse result list is empty
\* hybrid_search returns the dense results in dense ranking order, each with
\* its dense score normalized and scaled by dense_weight; if the dense list is
\* empty it returns the sparse results in sparse ranking order, each with its
\* sparse score normalized and scaled by sparse_weight.
C12_OneArmEmptyPassesThrough ==
    (hs.pc = "returned" /\ hs.indexed) =>
        /\ hs.sparse_results = <<>> =>
              hs.out = PassedThrough(hs.dense_results,
                                     NormalizedDense(hs.dense_results), hs.k)
        /\ hs.dense_results = <<>> =>
              hs.out = PassedThrough(hs.sparse_results,
                                     NormalizedSparse(hs.sparse_results), hs.k)

\* C13: a hybrid_search call made before any index_documents call ends with
\* an IndexNotReadyError raised to its caller, not with a returned list.
C13_FailsBeforeIndexing ==
    (hs.pc = "returned" /\ ~hs.indexed) => hs.raised = "IndexNotReadyError"

\* ------------------------------------------------------------------------
\* QueryExpander.expand_query
\* ------------------------------------------------------------------------
similarity_threshold == 70
NoThreshold == -1

Questions == {"q1"}
Variations == {"q1", "v1", "v2"}
SimValues == {50, 90}
Pairs == {p \in SUBSET Variations : Cardinality(p) = 2}
SimFunctions == [Pairs -> SimValues]

\* calculate_similarity: cosine similarity of the two embeddings
calculate_similarity(simf, query1, query2) ==
    IF query1 = query2 THEN 100 ELSE simf[{query1, query2}]

\* threshold = threshold or self.similarity_threshold
EffectiveThreshold(threshold) ==
    IF threshold = NoThreshold \/ threshold = 0 THEN similarity_threshold ELSE threshold

RECURSIVE FilterLoop(_, _, _, _)
FilterLoop(simf, filtered, rest, threshold) ==
    IF rest = <<>> THEN filtered
    ELSE LET query == Head(rest)
             tooSimilar == \E i \in 1..Len(filtered) :
                              calculate_similarity(simf, query, filtered[i]) > threshold
         IN  FilterLoop(simf,
                        IF tooSimilar THEN filtered ELSE Append(filtered, query),
                        Tail(rest), threshold)

filter_similar_queries(simf, queries, threshold) ==
    IF queries = <<>> THEN <<>>
    ELSE FilterLoop(simf, <<queries[1]>>, Tail(queries), EffectiveThreshold(threshold))

\* The dict expand_query returns, with its keys in insertion order.
\* all_variations is what generate_semantic_variations returned (the engine
\* passes no context); raises says that the body raised and the handler built
\* the fallback dict.
expand_query(simf, query, all_variations, raises) ==
    IF raises
    THEN [keys |-> <<"original_query", "expansions", "error">>,
          original_query |-> query,
          expansions |-> <<query>>]
    ELSE LET filtered_variations == filter_similar_queries(simf, all_variations, NoThreshold)
             with_original == IF query \in Range(filtered_variations)
                              THEN filtered_variations
                              ELSE <<query>> \o filtered_variations
         IN  [keys |-> <<"original_query", "expansions", "analysis", "metadata">>,
              original_query |-> query,
              expansions |-> Take(with_original, max_expansions)]

\* ------------------------------------------------------------------------
\* RAGEngine._get_contexts
\* ------------------------------------------------------------------------

\* for query in expanded_queries: iterating a dict yields its keys
IterDict(d) == d.keys

\* Deduplication on the whole entry, document and score
Dedup_by_entry(all_contexts) ==
    LET keep(i) == \A j \in 1..(i - 1) : all_contexts[j] # all_contexts[i]
        F[i \in 0..Len(all_contexts)] ==
            IF i = 0 THEN <<>>
            ELSE IF keep(i) THEN Append(F[i - 1], all_contexts[i]) ELSE F[i - 1]
    IN  F[Len(all_contexts)]

\* The variant that keeps the last entry of every document text
Dedup_last(all_contexts) ==
    LET keep(i) == \A j \in (i + 1)..Len(all_contexts) :
                       all_contexts[j].document # all_contexts[i].document
        F[i \in 0..Len(all_contexts)] ==
            IF i = 0 THEN <<>>
            ELSE IF keep(i) THEN Append(F[i - 1], all_contexts[i]) ELSE F[i - 1]
    IN  F[Len(all_contexts)]

\* [ctx for ctx in all_contexts if ctx["document"] not in seen and not
\*  seen.add(ctx["document"])]: the first entry of every document text
Dedup(all_contexts) ==
    LET keep(i) == \A j \in 1..(i - 1) : all_contexts[j].document # all_contexts[i].document
        F[i \in 0..Len(all_contexts)] ==
            IF i = 0 THEN <<>>
            ELSE IF keep(i) THEN Append(F[i - 1], all_contexts[i]) ELSE F[i - 1]
    IN  F[Len(all_contexts)]

\* The sorted list without the cut
unique_contexts_uncut(all_contexts, max_contexts) ==
    SortedDesc(Dedup(all_contexts))

\* sorted(..., key=score, reverse=True)[:max_contexts]
unique_contexts(all_contexts, max_contexts) ==
    Take(SortedDesc(Dedup(all_contexts)), max_contexts)

\* What one hybrid_search(query) of the engine (k = 5) can return: the fusion
\* of a dense and a sparse list, or the empty list.
CtxArms ==
    {<<>>,
     <<[document |-> "d2", score |-> 2]>>,
     <<[document |-> "d1", score |-> 2], [document |-> "d2", score |-> 1]>>}
SearchOutcomes == {Fuse(d, sp, DefaultK) : d \in CtxArms, sp \in CtxArms}

MaxContextsArg == 3
VariationLists == SeqsUpTo(Variations, MaxVariations)

\* _get_contexts(question, max_contexts) up to the return of expand_query
GcExpand ==
    /\ gc.pc = "none"
    /\ \E question \in Questions, max_contexts \in 0..MaxContextsArg,
          all_variations \in VariationLists, simf \in SimFunctions,
          raises \in BOOLEAN :
          LET expanded_queries == expand_query(simf, question, all_variations, raises)
          IN  gc' = [pc |-> "searching",
                     question |-> question,
                     max_contexts |-> max_contexts,
                     expansions |-> expanded_queries.expansions,
                     todo |-> IterDict(expanded_queries),
                     searched |-> <<>>,
                     all_contexts |-> <<>>]
    /\ UNCHANGED retrieverVars
    /\ UNCHANGED <<engineVars, storeVars, expanderVars, ingestVars, reportVars, processVars>>

\* One iteration of the loop: contexts = await hybrid_search(query);
\* all_contexts.extend(contexts) when contexts is not empty
GcSearch ==
    /\ gc.pc = "searching"
    /\ gc.todo # <<>>
    /\ \E contexts \in SearchOutcomes :
          gc' = [gc EXCEPT !.todo = Tail(@),
                           !.searched = Append(@, Head(gc.todo)),
                           !.all_contexts = @ \o contexts]
    /\ UNCHANGED retrieverVars
    /\ UNCHANGED <<engineVars, storeVars, expanderVars, ingestVars, reportVars, processVars>>

\* The loop is over: deduplicate, sort, cut and return
GcReturn ==
    /\ gc.pc = "searching"
    /\ gc.todo = <<>>
    /\ gc' = [pc |-> "returned",
              question |-> gc.question,
              max_contexts |-> gc.max_contexts,
              expansions |-> gc.expansions,
              searched |-> gc.searched,
              all_contexts |-> gc.all_contexts,
              out |-> unique_contexts(gc.all_contexts, gc.max_contexts)]
    /\ UNCHANGED retrieverVars
    /\ UNCHANGED <<engineVars, storeVars, expanderVars, ingestVars, reportVars, processVars>>

CtxInit == RetrieverInit
CtxNext == GcExpand \/ GcSearch \/ GcReturn

SpecCtx == CtxInit /\ [][CtxNext]_vars

Count(seq, x) == Cardinality({i \in 1..Len(seq) : seq[i] = x})

\* C7: _get_contexts calls hybrid_search exactly once for each query string of
\* the expansion list the expander returned, and for no other string.
C7_SearchesExactlyTheExpansions ==
    gc.pc = "returned" =>
        \A str \in Range(gc.searched) \cup Range(gc.expansions) :
            Count(gc.searched, str) = (IF str \in Range(gc.expansions) THEN 1 ELSE 0)

\* C8: _get_contexts returns at most max_contexts entries, and their scores
\* are non-increasing by position.
C8_ContextCapAndOrder ==
    gc.pc = "returned" =>
        /\ Len(gc.out) <= gc.max_contexts
        /\ \A i \in 1..(Len(gc.out) - 1) : gc.out[i].score >= gc.out[i + 1].score

C8_Witness ==
    /\ gc.pc = "returned"
    /\ Len(Dedup(gc.all_contexts)) > gc.max_contexts
    /\ Len(gc.out) = 1
    /\ \E i, j \in 1..Len(gc.all_contexts) :
          i < j /\ gc.all_contexts[i].score < gc.all_contexts[j].score

\* C9: no two contexts returned by _get_contexts have the same document text.
C9_DistinctDocuments ==
    gc.pc = "returned" =>
        \A i, j \in 1..Len(gc.out) : gc.out[i].document = gc.out[j].document => i = j

C9_Witness ==
    /\ gc.pc = "returned"
    /\ Len(gc.out) = 2
    /\ \E i, j \in 1..Len(gc.all_contexts) :
          /\ i # j
          /\ gc.all_contexts[i].document = gc.all_contexts[j].document
          /\ gc.all_contexts[i].score # gc.all_contexts[j].score

\* ------------------------------------------------------------------------
\* OllamaClient.generate and RAGEngine.answer_question
\* ------------------------------------------------------------------------
MaxCycles == 2

InitTemperatures == {10, 70, 95}
Relevances == {30, 50, 80, 90}
ResponseTimes == {1}

\* OllamaClient.model_config.temperature (OLLAMA_TEMPERATURE, default 0.7)
model_config_temperature == DefaultTemperature

\* payload["options"]["temperature"] = temperature or
\* self.model_config.temperature, for the temperature argument of generate
\* (Null when the caller passes none)
PayloadTemperature(temperature_arg) ==
    IF temperature_arg = Null \/ temperature_arg = Some(0)
    THEN model_config_temperature
    ELSE temperature_arg[1]

\* The temperature argument of self.ollama_client.generate(prompt) in
\* answer_question: the call passes the prompt only.
GenerateArgument(engine_temperature) == Null

\* The adjustment without the floor and the cap
_adjust_temperature_unclamped(temp, relevance_score) ==
    IF relevance_score < LowRelevance THEN temp - TempStep
    ELSE IF relevance_score > HighRelevance THEN temp + TempStep
    ELSE temp

\* The adjustment with the two boundaries on the wrong side
_adjust_temperature_inclusive(temp, relevance_score) ==
    IF relevance_score <= LowRelevance THEN Max(TempFloor, temp - TempStep)
    ELSE IF relevance_score >= HighRelevance THEN Min(TempCeil, temp + TempStep)
    ELSE temp

\* The new self.temperature of _adjust_temperature(relevance_score)
_adjust_temperature(temp, relevance_score) ==
    IF relevance_score < LowRelevance THEN Max(TempFloor, temp - TempStep)
    ELSE IF relevance_score > HighRelevance THEN Min(TempCeil, temp + TempStep)
    ELSE temp

\* What one answer_question call can get from _get_contexts
EngineContexts ==
    {unique_contexts(o, DefaultMaxContexts) :
        o \in {<<>>, Fuse(<<[document |-> "d1", score |-> 2]>>, <<>>, DefaultK)}}

\* The no-context response with the scores of the error response
NoContextResponse_null_scores(question) ==
    [question |-> question,
     answer |-> "I couldn't find relevant information to answer your question.",
     error |-> Some("No relevant contexts found"),
     relevance_score |-> Null,
     confidence_score |-> Null,
     contexts |-> Some(<<>>)]

NoContextResponse(question) ==
    [question |-> question,
     answer |-> "I couldn't find relevant information to answer your question.",
     error |-> Some("No relevant contexts found"),
     relevance_score |-> Some(0),
     confidence_score |-> Some(0),
     contexts |-> Some(<<>>)]

\* The error response with the scores of the no-context response
ErrorResponse_zero_scores(question, e) ==
    [question |-> question,
     answer |-> "Sorry, I encountered an error while processing your question.",
     error |-> Some(e),
     relevance_score |-> Some(0),
     confidence_score |-> Some(0),
     contexts |-> Null]

ErrorResponse(question, e) ==
    [question |-> question,
     answer |-> "Sorry, I encountered an error while processing your question.",
     error |-> Some(e),
     relevance_score |-> Null,
     confidence_score |-> Null,
     contexts |-> Null]

OkResponse(question, answer, grades, contexts) ==
    [question |-> question,
     answer |-> answer,
     error |-> Null,
     relevance_score |-> Some(grades.relevance_score),
     confidence_score |-> Some(grades.confidence_score),
     contexts |-> Some(contexts)]

\* self.metrics['failed_queries'] += 1
CountFailed(m) == [m EXCEPT !.failed_queries = @ + 1]

EngineInit ==
    /\ documents = <<>>
    /\ bm25 = NoIndex
    /\ hs = NoCall
    /\ gc = NoCall
    /\ temperature \in InitTemperatures
    /\ metrics = NoMetrics
    /\ calls = [c \in Calls |-> IdleCall]
    /\ engine = [temperature |-> temperature, started |-> 0, graded |-> 0,
                 cancelled |-> 0]
    /\ StoreIdle
    /\ ExpanderIdle
    /\ IngestIdle

\* answer_question(question) is called: start_time is taken and the
\* coroutine waits in _get_contexts for expand_query.
AnswerQuestion(c) ==
    /\ calls[c].pc = "idle"
    /\ engine.started < MaxCycles
    /\ \E question \in Questions :
          calls' = [calls EXCEPT ![c] =
                      [pc |-> "expanding",
                       question |-> question,
                       expander_requests |-> 0,
                       generate_requests |-> 0,
                       grader_calls |-> 0]]
    /\ engine' = [engine EXCEPT !.started = @ + 1]
    /\ UNCHANGED <<temperature, metrics>>
    /\ UNCHANGED <<documents, bm25, hs, gc, storeVars, expanderVars, ingestVars, reportVars, processVars>>

\* expand_query returns.  analyze_query always sends a generate request to
\* the inference backend; generate_semantic_variations sends one unless the
\* variations are in the expansion cache.
ExpandReturns(c) ==
    /\ calls[c].pc = "expanding"
    /\ \E cached \in BOOLEAN :
          calls' = [calls EXCEPT ![c].pc = "retrieving",
                                 ![c].expander_requests = IF cached THEN 1 ELSE 2]
    /\ UNCHANGED <<temperature, metrics, engine>>
    /\ UNCHANGED <<documents, bm25, hs, gc, storeVars, expanderVars, ingestVars, reportVars, processVars>>

\* _get_contexts returns.  Without contexts the call fails the query and
\* returns; with contexts it composes the prompt and sends the first generate
\* request.
ContextsReturn(c) ==
    /\ calls[c].pc = "retrieving"
    /\ \E contexts \in EngineContexts :
          IF contexts = <<>>
          THEN /\ metrics' = CountFailed(metrics)
               /\ calls' = [calls EXCEPT ![c] =
                              [pc |-> "done",
                               outcome |-> "no_contexts",
                               question |-> calls[c].question,
                               expander_requests |-> calls[c].expander_requests,
                               generate_requests |-> calls[c].generate_requests,
                               grader_calls |-> calls[c].grader_calls,
                               response |-> NoContextResponse(calls[c].question)]]
          ELSE /\ metrics' = metrics
               /\ calls' = [calls EXCEPT ![c] =
                              [pc |-> "generating",
                               question |-> calls[c].question,
                               contexts |-> contexts,
                               attempts |-> 1,
                               sent_temperature |->
                                   PayloadTemperature(GenerateArgument(temperature)),
                               engine_temperature |-> temperature]]
    /\ UNCHANGED <<temperature, engine>>
    /\ UNCHANGED <<documents, bm25, hs, gc, storeVars, expanderVars, ingestVars, reportVars, processVars>>

\* An attempt of generate raises and tenacity starts the next one, which
\* builds and sends the payload again (attempts counts the requests sent).
GenerateRetries(c) ==
    /\ calls[c].pc = "generating"
    /\ calls[c].attempts < StopAfterAttempt
    /\ calls' = [calls EXCEPT ![c].attempts = @ + 1,
                              ![c].sent_temperature =
                                  PayloadTemperature(GenerateArgument(temperature)),
                              ![c].engine_temperature = temperature]
    /\ UNCHANGED <<temperature, metrics, engine>>
    /\ UNCHANGED <<documents, bm25, hs, gc, storeVars, expanderVars, ingestVars, reportVars, processVars>>

\* The error response is returned and the query is not counted
Fails_uncounted(c, outcome, e) ==
    /\ metrics' = metrics
    /\ calls' = [calls EXCEPT ![c] =
                   [pc |-> "done",
                    outcome |-> outcome,
                    question |-> calls[c].question,
                    attempts |-> calls[c].attempts,
                    response |-> ErrorResponse(calls[c].question, e)]]
    /\ UNCHANGED <<temperature, engine>>

\* The except branch of answer_question
Fails(c, outcome, e) ==
    /\ metrics' = CountFailed(metrics)
    /\ calls' = [calls EXCEPT ![c] =
                   [pc |-> "done",
                    outcome |-> outcome,
                    question |-> calls[c].question,
                    attempts |-> calls[c].attempts,
                    response |-> ErrorResponse(calls[c].question, e)]]
    /\ UNCHANGED <<temperature, engine>>

\* Any failed attempt of generate is raised into answer_question.
GenerateFails_at_once(c) ==
    /\ calls[c].pc = "generating"
    /\ Fails(c, "generation_failed", "RetryError")
    /\ UNCHANGED <<documents, bm25, hs, gc, storeVars, expanderVars, ingestVars, reportVars, processVars>>

\* The last attempt of generate raises: tenacity raises RetryError into
\* answer_question.
GenerateFails(c) ==
    /\ calls[c].pc = "generating"
    /\ calls[c].attempts = StopAfterAttempt
    /\ Fails(c, "generation_failed", "RetryError")
    /\ UNCHANGED <<documents, bm25, hs, gc, storeVars, expanderVars, ingestVars, reportVars, processVars>>

\* generate returns an answer and grade_answer raises.
GradingFails(c) ==
    /\ calls[c].pc = "generating"
    /\ Fails(c, "grading_failed", "grading error")
    /\ UNCHANGED <<documents, bm25, hs, gc, storeVars, expanderVars, ingestVars, reportVars, processVars>>

\* The metrics update that leaves the temperature history as it is
RecordSuccess_without_history(m, new_temperature, response_time, relevance_score) ==
    [m EXCEPT !.avg_response_time = Append(@, response_time),
              !.avg_relevance_score = Append(@, relevance_score),
              !.successful_queries = @ + 1]

\* metrics['temp_adjustments'].append(self.temperature) in
\* _adjust_temperature, then the two appends and successful_queries += 1 of
\* answer_question
RecordSuccess(m, new_temperature, response_time, relevance_score) ==
    [m EXCEPT !.temp_adjustments = Append(@, new_temperature),
              !.avg_response_time = Append(@, response_time),
              !.avg_relevance_score = Append(@, relevance_score),
              !.successful_queries = @ + 1]

\* generate returns an answer, grade_answer returns the grades: the
\* temperature is adjusted from its value temp, the metrics are updated and
\* the response is returned, with no suspension point in between.
GradedFrom(c, temp) ==
    /\ calls[c].pc = "generating"
    /\ \E relevance_score \in Relevances, confidence_score \in {60},
          response_time \in ResponseTimes :
          LET grades == [relevance_score |-> relevance_score,
                         confidence_score |-> confidence_score]
              new_temperature == _adjust_temperature(temp, relevance_score)
          IN  /\ temperature' = new_temperature
              /\ metrics' = RecordSuccess(metrics, new_temperature, response_time,
                                          relevance_score)
              /\ calls' = [calls EXCEPT ![c] =
                             [pc |-> "done",
                              outcome |-> "answered",
                              question |-> calls[c].question,
                              engine_temperature |-> calls[c].engine_temperature,
                              response |-> OkResponse(calls[c].question, "answer",
                                                      grades, calls[c].contexts)]]
    /\ engine' = [engine EXCEPT !.graded = @ + 1]
    /\ UNCHANGED <<documents, bm25, hs, gc, storeVars, expanderVars, ingestVars, reportVars, processVars>>

\* _adjust_temperature reads self.temperature when it runs.
Graded(c) == GradedFrom(c, temperature)

\* The same up to successful_queries += 1, then one of the print calls that
\* follow raises (the console cannot encode the question or the answer, or
\* is closed): the except branch counts the call as failed as well and
\* returns the error response.
PrintFails(c) ==
    /\ calls[c].pc = "generating"
    /\ \E relevance_score \in Relevances, response_time \in ResponseTimes :
          LET new_temperature == _adjust_temperature(temperature, relevance_score)
          IN  /\ temperature' = new_temperature
              /\ metrics' = CountFailed(RecordSuccess(metrics, new_temperature,
                                                      response_time, relevance_score))
              /\ calls' = [calls EXCEPT ![c] =
                             [pc |-> "done",
                              outcome |-> "print_failed",
                              question |-> calls[c].question,
                              attempts |-> calls[c].attempts,
                              response |-> ErrorResponse(calls[c].question,
                                                         "print error")]]
    /\ engine' = [engine EXCEPT !.graded = @ + 1]
    /\ UNCHANGED <<documents, bm25, hs, gc, storeVars, expanderVars, ingestVars, reportVars, processVars>>

\* The caller has the response; the task is over.
Returned(c) ==
    /\ calls[c].pc \in {"done", "cancelled"}
    /\ calls' = [calls EXCEPT ![c] = IdleCall]
    /\ UNCHANGED <<temperature, metrics, engine>>
    /\ UNCHANGED <<documents, bm25, hs, gc, storeVars, expanderVars, ingestVars, reportVars, processVars>>

\* The cancelled call is counted as a failed query
CountCancelled_as_failed(m) == CountFailed(m)

\* asyncio.CancelledError is not an Exception: it passes every except
\* Exception handler on its way out of answer_question, and the metrics stay
\* as they are
CountCancelled(m) == m

\* The task running answer_question is cancelled while it waits for the
\* query expansion, for a hybrid search or for the inference backend.
Cancel(c) ==
    /\ calls[c].pc \in {"expanding", "retrieving", "generating"}
    /\ calls' = [calls EXCEPT ![c] = [pc |-> "cancelled",
                                      question |-> calls[c].question,
                                      at |-> calls[c].pc]]
    /\ metrics' = CountCancelled(metrics)
    /\ engine' = [engine EXCEPT !.cancelled = @ + 1]
    /\ UNCHANGED temperature
    /\ UNCHANGED <<documents, bm25, hs, gc, storeVars, expanderVars, ingestVars, reportVars, processVars>>

RECURSIVE SumSeq(_)
SumSeq(s) == IF s = <<>> THEN 0 ELSE Head(s) + SumSeq(Tail(s))

\* A quotient of two numbers of the model, kept exact
Quotient(num, den) == [num |-> num, den |-> den]
Zero == Quotient(0, 1)

\* sum(xs) / len(xs) if xs else 0
Mean(xs) == IF xs # <<>> THEN Quotient(SumSeq(xs), Len(xs)) ELSE Zero

\* The rate without the guard for no queries and without the factor 100
SuccessRate_unscaled(m, total_queries) ==
    Quotient(m.successful_queries, total_queries)

\* (successful_queries / total_queries * 100) if total_queries > 0 else 0
SuccessRate(m, total_queries) ==
    IF total_queries > 0 THEN Quotient(m.successful_queries * 100, total_queries)
    ELSE Zero

\* The dict get_performance_metrics returns
get_performance_metrics(m, temp) ==
    LET total_queries == m.successful_queries + m.failed_queries
    IN  [avg_response_time |-> Mean(m.avg_response_time),
         avg_relevance_score |-> Mean(m.avg_relevance_score),
         current_temperature |-> temp,
         temperature_history |-> m.temp_adjustments,
         total_documents_processed |-> m.total_documents,
         total_queries |-> total_queries,
         successful_queries |-> m.successful_queries,
         failed_queries |-> m.failed_queries,
         success_rate |-> SuccessRate(m, total_queries)]

\* get_performance_metrics() is called between two steps of the event loop.
\* It reads the metrics and the temperature only, and every value these take
\* is also there when no answer_question call is in flight: the report is
\* asked for in those states.
GetPerformanceMetrics ==
    /\ pm.pc = "none"
    /\ \A c \in Calls : calls[c].pc = "idle"
    /\ pm' = [pc |-> "returned", raised |-> None,
              out |-> get_performance_metrics(metrics, temperature)]
    /\ UNCHANGED <<engineVars, retrieverVars, gc, storeVars, expanderVars, ingestVars, processVars>>

\* The caller has the metrics
MetricsTaken ==
    /\ pm.pc = "returned"
    /\ pm' = NoCall
    /\ UNCHANGED <<engineVars, retrieverVars, gc, storeVars, expanderVars, ingestVars, processVars>>

\* get_performance_metrics is synchronous: it returns to its caller before
\* any coroutine takes its next step
Next ==
    \/ /\ pm.pc = "none"
       /\ \E c \in Calls :
             \/ AnswerQuestion(c)
             \/ ExpandReturns(c)
             \/ ContextsReturn(c)
             \/ GenerateRetries(c)
             \/ GenerateFails(c)
             \/ GradingFails(c)
             \/ Graded(c)
             \/ PrintFails(c)
             \/ Cancel(c)
             \/ Returned(c)
    \/ GetPerformanceMetrics
    \/ MetricsTaken

Spec == EngineInit /\ [][Next]_vars

\* ------------------------------------------------------------------------
\* Properties of the answer cycle
\* ------------------------------------------------------------------------
Last(seq) == seq[Len(seq)]

InBounds(t) == t >= 10 /\ t <= 100

\* C1: the engine temperature and every value of the temperature history lie
\* within [0.1, 1.0], after any sequence of answered, no-context and failed
\* cycles.
C1_TemperatureBounds ==
    /\ InBounds(temperature)
    /\ \A i \in 1..Len(metrics.temp_adjustments) : InBounds(metrics.temp_adjustments[i])

C1_Witness ==
    /\ engine.temperature = 10
    /\ metrics.failed_queries >= 1
    /\ Len(metrics.temp_adjustments) >= 2
    /\ metrics.avg_relevance_score[1] = 30
    /\ metrics.temp_adjustments[1] = 10
    /\ metrics.avg_relevance_score[2] = 90

\* The adaptation policy as the specification words it
Policy(t, r) ==
    IF r < 50 THEN (IF t - 10 < 10 THEN 10 ELSE t - 10)
    ELSE IF r > 80 THEN (IF t + 10 > 100 THEN 100 ELSE t + 10)
    ELSE t

Adapts == Len(metrics'.temp_adjustments) = Len(metrics.temp_adjustments) + 1

\* C2: one adaptation with relevance r and temperature t yields
\* max(0.1, t - 0.1) when r < 0.5, min(1.0, t + 0.1) when r > 0.8 and t for
\* every r with 0.5 <= r <= 0.8; r = 0.9 from 0.7 gives 0.8 and r = 0.3 from
\* 0.2 gives 0.1.
C2_AdaptationPolicy ==
    [][Adapts =>
        LET r == Last(metrics'.avg_relevance_score)
        IN  /\ temperature' = Policy(temperature, r)
            /\ Last(metrics'.temp_adjustments) = temperature'
            /\ (r >= 50 /\ r <= 80) => temperature' = temperature
            /\ (temperature = 70 /\ r = 90) => temperature' = 80
            /\ (temperature = 20 /\ r = 30) => temperature' = 10]_vars

C2_Witness ==
    /\ engine.temperature = 70
    /\ metrics.avg_relevance_score = <<90, 80>>
    /\ metrics.temp_adjustments = <<80, 80>>

\* C3: the temperature sent to the inference backend with a generation
\* request equals the engine temperature at the moment of the request.
C3_SentTemperatureIsEngineTemperature ==
    \A c \in Calls :
        calls[c].pc = "generating" =>
            calls[c].sent_temperature = calls[c].engine_temperature

Quiescent == \A c \in Calls : calls[c].pc \in {"idle", "done"}

\* C4 as stated: once all calls have returned, every call that returned (a cancelled
\* call does not) is counted exactly once as successful or failed, and the
\* temperature history holds one entry per
\* graded call, each the policy applied to the temperature the previous
\* update left.
C4_NoLostUpdate ==
    Quiescent =>
        /\ metrics.successful_queries + metrics.failed_queries
              = engine.started - engine.cancelled
        /\ metrics.successful_queries = engine.graded
        /\ Len(metrics.temp_adjustments) = engine.graded
        /\ Len(metrics.avg_relevance_score) = engine.graded
        /\ \A i \in 1..Len(metrics.temp_adjustments) :
              metrics.temp_adjustments[i] =
                  Policy(IF i = 1 THEN engine.temperature
                                  ELSE metrics.temp_adjustments[i - 1],
                         metrics.avg_relevance_score[i])
        /\ temperature = IF metrics.temp_adjustments = <<>> THEN engine.temperature
                         ELSE Last(metrics.temp_adjustments)

FailsIn(c) ==
    /\ calls[c].pc = "generating"
    /\ calls'[c].pc = "done"
    /\ calls'[c].outcome \in {"generation_failed", "grading_failed"}

\* C5: when generation (after the retries) or grading fails, answer_question
\* returns a response with the question unchanged, an answer text, a
\* non-null error, null relevance and confidence scores, and adds exactly one
\* to failed_queries.
C5_ErrorResponse ==
    [][\A c \in Calls :
        FailsIn(c) =>
            /\ calls'[c].response.question = calls[c].question
            /\ calls'[c].response.answer \in STRING
            /\ calls'[c].response.error # Null
            /\ calls'[c].response.relevance_score = Null
            /\ calls'[c].response.confidence_score = Null
            /\ metrics'.failed_queries = metrics.failed_queries + 1
            /\ metrics'.successful_queries = metrics.successful_queries]_vars

C5_Witness ==
    \E c1, c2 \in Calls :
        /\ calls[c1].pc = "done" /\ calls[c1].outcome = "generation_failed"
        /\ calls[c1].attempts = 3
        /\ calls[c2].pc = "done" /\ calls[c2].outcome = "grading_failed"
        /\ metrics.failed_queries = 2

NoContextsIn(c) ==
    /\ calls[c].pc = "retrieving"
    /\ calls'[c].pc = "done"

CannedNoInformation(c) ==
    /\ calls'[c].response.answer =
          "I couldn't find relevant information to answer your question."
    /\ calls'[c].response.relevance_score = Some(0)
    /\ calls'[c].response.confidence_score = Some(0)
    /\ calls'[c].response.contexts = Some(<<>>)
    /\ metrics'.failed_queries = metrics.failed_queries + 1

\* C6 as claimed: when _get_contexts returns no contexts, answer_question adds
\* one to failed_queries, returns the canned no-information response with
\* zero scores and no contexts, and the cycle sends no request to the
\* inference backend and does not call the grader.
C6_NoBackendRequestAtAll ==
    [][\A c \in Calls :
        NoContextsIn(c) =>
            /\ CannedNoInformation(c)
            /\ calls'[c].expander_requests + calls'[c].generate_requests = 0
            /\ calls'[c].grader_calls = 0]_vars

\* C6: when _get_contexts returns no contexts, answer_question adds one to
\* failed_queries, returns the canned no-information response with zero
\* scores and no contexts, sends no answer-generation request and does not
\* call the grader; the requests the inference backend gets in that cycle
\* are those of query expansion.
C6_NoGenerationNoGrading ==
    [][\A c \in Calls :
        NoContextsIn(c) =>
            /\ CannedNoInformation(c)
            /\ calls'[c].generate_requests = 0
            /\ calls'[c].expander_requests >= 1
            /\ calls'[c].grader_calls = 0]_vars

C6_Witness ==
    \E c \in Calls :
        /\ calls[c].pc = "done"
        /\ calls[c].outcome = "no_contexts"
        /\ calls[c].response.contexts = Some(<<>>)
        /\ metrics.failed_queries = 1
        /\ metrics.successful_queries = 1

\* ------------------------------------------------------------------------
\* VectorStore
\* ------------------------------------------------------------------------
TickSeconds == 100

StoreQueries == {"q1"}

\* The k of a search: asking for more than the documents there are returns
\* what asking for all of them returns
StoreKs == 1..2

\* The chunk lists process_document passes to add_embeddings
DocSeq == <<"d1", "d2">>
ChunkLists ==
    {SubSeq(DocSeq, i, j) : i \in 1..Len(DocSeq), j \in 1..Len(DocSeq)} \ {<<>>}

\* The distance the vector database reports between the embedding of a query
\* and that of a stored text: Some(hundredths), or Null for a value that is
\* not an int or a float.  The default space of a Chroma collection is the
\* squared L2 distance, which exceeds 1 for distant texts.
Distance(query, document) ==
    IF document = "d1" THEN Some(50) ELSE Some(150)

\* cache_key = f"query_{query}"
cache_key(query) == <<"query", query>>

\* cache_key = f"embedding_{ids[i]}"
embedding_key(id) == <<"embedding", id>>

\* redis_client.get(key): Null, or Some(value) for a live entry
Get(r, key) ==
    IF \E e \in r : e.key = key
    THEN Some((CHOOSE e \in r : e.key = key).value)
    ELSE Null

\* An entry that expires one tick early
Setex_short(r, key, ttl, value, t) ==
    {e \in r : e.key # key}
        \cup {[key |-> key, value |-> value, expires_at |-> t + ttl - TickSeconds]}

\* redis_client.setex(key, ttl, value) at time t: the entry replaces the one
\* under the same key and lives for ttl seconds
Setex(r, key, ttl, value, t) ==
    {e \in r : e.key # key}
        \cup {[key |-> key, value |-> value, expires_at |-> t + ttl]}

\* The entries Redis still holds at time t
Live(r, t) == {e \in r : e.expires_at > t}

\* json.dumps(search_results): the text of a list of objects, held as the
\* list of their <<document, metadata, score>> values
Dumps(search_results) ==
    [i \in 1..Len(search_results) |->
        <<search_results[i].document, search_results[i].metadata,
          search_results[i].score>>]

\* json.loads(cached_results)
Loads(text) ==
    [i \in 1..Len(text) |->
        [document |-> text[i][1], metadata |-> text[i][2], score |-> text[i][3]]]

\* collection.query(query_embeddings, n_results=k): the k nearest items,
\* nearest first
DistanceKey(dist) == IF dist = Null THEN 1000 ELSE dist[1]

RECURSIVE InsertNearest(_, _, _)
InsertNearest(ranked, item, query) ==
    IF ranked = <<>> THEN <<item>>
    ELSE IF DistanceKey(Distance(query, Head(ranked).document))
              <= DistanceKey(Distance(query, item.document))
         THEN <<Head(ranked)>> \o InsertNearest(Tail(ranked), item, query)
         ELSE <<item>> \o ranked

RECURSIVE Nearest(_, _)
Nearest(items, query) ==
    IF items = <<>> THEN <<>>
    ELSE InsertNearest(Nearest(SubSeq(items, 1, Len(items) - 1), query),
                       items[Len(items)], query)

Query(items, query, k) ==
    LET nearest == Take(Nearest(items, query), k)
    IN  [documents |-> [i \in 1..Len(nearest) |-> nearest[i].document],
         metadatas |-> [i \in 1..Len(nearest) |-> nearest[i].metadata],
         distances |-> [i \in 1..Len(nearest) |->
                           Distance(query, nearest[i].document)]]

\* float(1 - dist) if isinstance(dist, (int, float)) else 0.0
Score(dist) == IF dist = Null THEN 0 ELSE 100 - dist[1]

\* search_results, built from the three lists of the query result
SearchResults(results) ==
    [i \in 1..Len(results.documents) |->
        [document |-> results.documents[i],
         metadata |-> results.metadatas[i],
         score |-> Score(results.distances[i])]]

\* What a search call hands to its caller and how: the list it returns, where
\* the list comes from (the database, the cache, or the exception handler),
\* the exception it lets out, and the number of queries it sent to the
\* vector database.
SearchReturn(call, src, error, raised, out, db_queries) ==
    [pc |-> "returned", query |-> call.query, k |-> call.k, src |-> src,
     error |-> error, raised |-> raised, out |-> out, db_queries |-> db_queries]

\* The handler lets the exception out
SearchError_raises(call, error, db_queries) ==
    SearchReturn(call, "error", error, error, <<>>, db_queries)

\* except Exception: logger.error(...); return []
SearchError(call, error, db_queries) ==
    SearchReturn(call, "error", error, None, <<>>, db_queries)

\* initialize(): the collection is created (or fetched)
Initialize ==
    /\ sr.pc = "none"
    /\ ~collection.created
    /\ collection' = [created |-> TRUE, items |-> <<>>]
    /\ UNCHANGED <<redis, now, ss, sr, dbret>>
    /\ UNCHANGED <<retrieverVars, gc, engineVars, expanderVars, ingestVars, reportVars, processVars>>

\* ids = [f"doc_{i}_{int(time.time())}" for i in range(len(texts))]
Ids(texts, t) == [i \in 1..Len(texts) |-> <<i - 1, t>>]

\* The embedding entries are written and every query-result entry is dropped
CacheEmbeddings_invalidating(r, texts, ids, metadata, n, t) ==
    LET F[i \in 0..n] ==
            IF i = 0 THEN {e \in r : e.key[1] # "query"}
            ELSE Setex(F[i - 1], embedding_key(ids[i]), CacheTTL,
                       <<texts[i], metadata[i]>>, t)
    IN  F[n]

\* The loop that caches the embeddings, for its first n iterations
CacheEmbeddings(r, texts, ids, metadata, n, t) ==
    LET F[i \in 0..n] ==
            IF i = 0 THEN r
            ELSE Setex(F[i - 1], embedding_key(ids[i]), CacheTTL,
                       <<texts[i], metadata[i]>>, t)
    IN  F[n]

\* collection.add(...): an item whose id the collection already holds is
\* ignored
RECURSIVE CollectionAdd(_, _, _, _)
CollectionAdd(items, texts, ids, metadata) ==
    IF texts = <<>> THEN items
    ELSE CollectionAdd(
            IF \E j \in 1..Len(items) : items[j].id = Head(ids)
            THEN items
            ELSE Append(items, [id |-> Head(ids), document |-> Head(texts),
                                metadata |-> Head(metadata)]),
            Tail(texts), Tail(ids), Tail(metadata))

\* The number of add_embeddings calls that wrote the items of the collection,
\* and the number of those whose cached embeddings Redis still holds
Adds(items) ==
    Cardinality({j \in 1..Len(items) : items[j].metadata.chunk_index = 0})

CachedAdds(r) ==
    Cardinality({e \in r : e.key[1] = "embedding" /\ e.key[2][1] = 0})

\* add_embeddings(texts, metadata) with the chunks and the metadata records
\* process_document passes.  The call ends normally, or raises from the
\* embedding model, from the n-th setex, or from collection.add (which it
\* does when the collection is None).
AddEmbeddings ==
    /\ sr.pc = "none"
    /\ \E texts \in ChunkLists,
          outcome \in {"ok", "encode", "cache", "database"} :
          LET metadata == [i \in 1..Len(texts) |-> [chunk_index |-> i - 1]]
              ids == Ids(texts, now)
          IN  /\ Adds(collection.items) < MaxAdds
              /\ CachedAdds(redis) < MaxAdds
              /\ outcome = "ok" => collection.created
              /\ \E n \in 0..Len(texts) :
                    /\ outcome \in {"ok", "database"} => n = Len(texts)
                    /\ outcome = "encode" => n = 0
                    /\ outcome = "cache" => n < Len(texts)
                    /\ redis' = CacheEmbeddings(redis, texts, ids, metadata, n, now)
              /\ collection' =
                    IF outcome = "ok"
                    THEN [collection EXCEPT
                            !.items = CollectionAdd(@, texts, ids, metadata)]
                    ELSE collection
    /\ UNCHANGED <<now, ss, sr, dbret>>
    /\ UNCHANGED <<retrieverVars, gc, engineVars, expanderVars, ingestVars, reportVars, processVars>>

\* search(query, k) up to its first suspension: the cache is read; a cached
\* text, the text "[]" of an empty list included, is decoded and returned;
\* otherwise the query is embedded and sent to the collection.  A failing
\* get or encode, and a collection that is None, end the call in the handler.
SearchStart ==
    /\ sr.pc = "none"
    /\ \E query \in StoreQueries, k \in StoreKs, get_ok \in BOOLEAN,
          encode_ok \in BOOLEAN :
          LET call == [query |-> query, k |-> k]
              cached_results == Get(redis, cache_key(query))
          IN  IF ~get_ok
              THEN sr' = SearchError(call, "cache_get", 0) /\ ss' = ss
              ELSE IF cached_results # Null
              THEN /\ sr' = SearchReturn(call, "cache", None, None,
                                         Loads(cached_results[1]), 0)
                   /\ ss' = ss
              ELSE IF ~encode_ok
              THEN sr' = SearchError(call, "encode", 0) /\ ss' = ss
              ELSE IF ~collection.created
              THEN sr' = SearchError(call, "no_collection", 0) /\ ss' = ss
              ELSE /\ BagCardinality(ss) < MaxSearches
                   /\ ss' = ss (+) SetToBag({call})
                   /\ sr' = sr
    /\ UNCHANGED <<collection, redis, now, dbret>>
    /\ UNCHANGED <<retrieverVars, gc, engineVars, expanderVars, ingestVars, reportVars, processVars>>

\* A search returned search_results from the database at time t
Record(h, call, search_results, t) ==
    [first |-> IF h.first = Null
               THEN Some([query |-> call.query, k |-> call.k,
                          out |-> search_results, at |-> t])
               ELSE h.first,
     last |-> Some([query |-> call.query, out |-> search_results, at |-> t])]

\* The collection answers a waiting call: the results are formatted, cached
\* and returned.  A failing query or setex ends the call in the handler.
SearchFinish(call) ==
    /\ sr.pc = "none"
    /\ ss' = ss (-) SetToBag({call})
    /\ \E query_ok \in BOOLEAN, setex_ok \in BOOLEAN :
          LET results == Query(collection.items, call.query, call.k)
              search_results == SearchResults(results)
          IN  IF ~query_ok
              THEN /\ sr' = SearchError(call, "database", 1)
                   /\ UNCHANGED <<redis, dbret>>
              ELSE IF ~setex_ok
              THEN /\ sr' = SearchError(call, "cache_setex", 1)
                   /\ UNCHANGED <<redis, dbret>>
              ELSE /\ sr' = SearchReturn(call, "db", None, None, search_results, 1)
                   /\ redis' = Setex(redis, cache_key(call.query), CacheTTL,
                                     Dumps(search_results), now)
                   /\ dbret' = Record(dbret, call, search_results, now)
    /\ UNCHANGED <<collection, now>>
    /\ UNCHANGED <<retrieverVars, gc, engineVars, expanderVars, ingestVars, reportVars, processVars>>

\* The part of the history that lies within CacheTTL seconds before time t
Recent(a, t) == IF a # Null /\ t - a[1].at < CacheTTL THEN a ELSE Null

\* Time passes; Redis drops the entries whose time to live is over.
Tick ==
    /\ sr.pc = "none"
    /\ now < MaxTicks * TickSeconds
    /\ now' = now + TickSeconds
    /\ redis' = Live(redis, now + TickSeconds)
    /\ dbret' = [first |-> Recent(dbret.first, now + TickSeconds),
                 last |-> Recent(dbret.last, now + TickSeconds)]
    /\ UNCHANGED <<collection, ss, sr>>
    /\ UNCHANGED <<retrieverVars, gc, engineVars, expanderVars, ingestVars, reportVars, processVars>>

\* The caller of search resumes with the returned list.
SearchTaken ==
    /\ sr.pc = "returned"
    /\ sr' = NoCall
    /\ UNCHANGED <<collection, redis, now, ss, dbret>>
    /\ UNCHANGED <<retrieverVars, gc, engineVars, expanderVars, ingestVars, reportVars, processVars>>

StoreInit == RetrieverInit

StoreNext ==
    \/ Initialize
    \/ AddEmbeddings
    \/ Tick
    \/ SearchTaken
    \/ SearchStart
    \/ \E call \in BagToSet(ss) : SearchFinish(call)

SpecStore == StoreInit /\ [][StoreNext]_vars

\* ------------------------------------------------------------------------
\* Properties of VectorStore.search
\* ------------------------------------------------------------------------
SearchArguments == [query : StoreQueries, k : StoreKs]

\* A search call returns at once, without waiting for the collection
ReturnsAtOnce(call) ==
    /\ sr.pc = "none"
    /\ sr'.pc = "returned"
    /\ ss' = ss
    /\ sr'.query = call.query
    /\ sr'.k = call.k

\* A search call sends its query to the collection and waits
Waits(call) == ss' = ss (+) SetToBag({call})

\* A search call returns
Returns == sr.pc = "none" /\ sr'.pc = "returned"

\* A search called in this step for which Redis answers the get is served the
\* list out from the cache, without a query to the vector database
ServedFromCache(call, out) ==
    /\ ~Waits(call)
    /\ (ReturnsAtOnce(call) /\ sr'.error # "cache_get") =>
          /\ sr'.src = "cache"
          /\ sr'.out = out
          /\ sr'.db_queries = 0

\* C14 as claimed: once a search has returned a list obtained from the vector
\* database, a search with the same query string and the same k made less
\* than 300 seconds later (Redis answering) returns the identical list and
\* sends no query to the vector database.
C14_RepeatedSearchReturnsFirstList ==
    [][\A call \in SearchArguments :
        LET a == dbret.first
        IN  (/\ a # Null
             /\ a[1].query = call.query
             /\ a[1].k = call.k
             /\ now - a[1].at < CacheTTL) => ServedFromCache(call, a[1].out)]_vars

\* C14: once a search has returned a list obtained from the vector database,
\* a search with the same query string, whatever its k, made less than 300
\* seconds later (Redis answering) sends no query to the vector database and
\* returns the list of the latest search that returned a database result for
\* that query string.
C14_RepeatedSearchReturnsLatestList ==
    [][\A call \in SearchArguments :
        LET a == dbret.last
        IN  (/\ a # Null
             /\ a[1].query = call.query
             /\ now - a[1].at < CacheTTL) => ServedFromCache(call, a[1].out)]_vars

\* A search is served, 200 seconds after the only database result of the
\* window was returned, the non-empty list of that result.
C14_Witness ==
    /\ sr.pc = "returned"
    /\ sr.src = "cache"
    /\ sr.out # <<>>
    /\ dbret.last # Null
    /\ dbret.first # Null
    /\ dbret.first[1].out = dbret.last[1].out
    /\ dbret.first[1].at = dbret.last[1].at
    /\ dbret.first[1].k = sr.k
    /\ sr.out = dbret.last[1].out
    /\ now - dbret.last[1].at = 200

\* C15: when Redis fails the get or the setex of a search, the search still
\* queries the vector database and returns the list the database gives, as
\* on a cache miss, and lets no exception out.
C15_CacheOutageIsAMiss ==
    [][(Returns /\ sr'.error \in {"cache_get", "cache_setex"}) =>
          /\ sr'.db_queries = 1
          /\ sr'.raised = None
          /\ sr'.out = SearchResults(Query(collection.items, sr'.query, sr'.k))]_vars

\* C16: search lets no exception out; when the embedding model or the vector
\* database fails, or the collection is None, it returns the empty list and
\* leaves the cache as it was.
C16_SearchNeverRaises ==
    [][Returns =>
          /\ sr'.raised = None
          /\ sr'.error \in {"encode", "database", "no_collection"} =>
                /\ sr'.out = <<>>
                /\ redis' = redis]_vars

\* The query to a collection that holds documents failed: the search
\* returned the empty list and the cache holds no entry for the query.
C16_Witness ==
    /\ sr.pc = "returned"
    /\ sr.error = "database"
    /\ sr.out = <<>>
    /\ collection.items # <<>>
    /\ Get(redis, cache_key(sr.query)) = Null

\* The query-result entries of the cache
QueryEntries(r) == {e \in r : e.key[1] = "query"}

\* An add_embeddings or initialize step
Ingests == sr' = sr /\ ss' = ss /\ now' = now

\* The collection holds an item added after time t
IngestedAfter(t) ==
    \E j \in 1..Len(collection.items) : collection.items[j].id[2] > t

\* No search is served from the cache once the entry of its query string has
\* expired
MissesAfterExpiry ==
    \A call \in SearchArguments :
        (ReturnsAtOnce(call) /\ Get(redis, cache_key(call.query)) = Null) =>
            sr'.src = "error"

\* C17 as claimed: ingestion leaves the query-result entries of the cache
\* untouched; after documents were added, a search for a query string whose
\* result was cached returns the list of the first search that cached it, on
\* every call until 300 seconds after that search; and a search made after
\* the expiry queries the vector database again.
C17_PreIngestionListUntilExpiry ==
    [][/\ Ingests => QueryEntries(redis') = QueryEntries(redis)
       /\ \A call \in SearchArguments :
            LET a == dbret.first
            IN  (/\ a # Null
                 /\ a[1].query = call.query
                 /\ now - a[1].at < CacheTTL
                 /\ IngestedAfter(a[1].at)) => ServedFromCache(call, a[1].out)
       /\ MissesAfterExpiry]_vars

\* C17: ingestion leaves the query-result entries of the cache untouched;
\* after documents were added, a search for a query string whose result was
\* cached less than 300 seconds ago returns the cached list, which is the
\* list of the latest search that returned a database result; and a search
\* made after the expiry queries the vector database again.
C17_CachedListUntilExpiry ==
    [][/\ Ingests => QueryEntries(redis') = QueryEntries(redis)
       /\ \A call \in SearchArguments :
            LET a == dbret.last
            IN  (/\ a # Null
                 /\ a[1].query = call.query
                 /\ now - a[1].at < CacheTTL
                 /\ IngestedAfter(a[1].at)) => ServedFromCache(call, a[1].out)
       /\ MissesAfterExpiry]_vars

\* A search is served from the cache a list that was stored before the
\* documents of the collection were added and that differs from what the
\* database would return.
C17_Witness ==
    /\ sr.pc = "returned"
    /\ sr.src = "cache"
    /\ dbret.last # Null
    /\ sr.out = dbret.last[1].out
    /\ collection.items # <<>>
    /\ \A j \in 1..Len(collection.items) :
          collection.items[j].id[2] > dbret.last[1].at
    /\ sr.out # SearchResults(Query(collection.items, sr.query, sr.k))

\* C18: every score of a list returned by search lies in [0, 1], and an
\* entry whose distance is not a number has score 0.
C18_ScoresWithinUnitInterval ==
    sr.pc = "returned" =>
        \A i \in 1..Len(sr.out) :
            /\ sr.out[i].score >= 0
            /\ sr.out[i].score <= 100
            /\ Distance(sr.query, sr.out[i].document) = Null => sr.out[i].score = 0

\* ------------------------------------------------------------------------
\* QueryExpander.filter_similar_queries and QueryExpander.expand_query, called
\* on their own
\* ------------------------------------------------------------------------

\* The original query and the distinct lines the inference backend can answer
ExpSeq == <<"q1", "v1", "v2", "v3", "v4", "v5", "v6", "v7">>
ExpStrings == {ExpSeq[i] : i \in 1..(IF MaxLines < Len(ExpSeq) THEN MaxLines ELSE Len(ExpSeq))}
ExpPairs == {p \in SUBSET ExpStrings : Cardinality(p) = 2}

\* Embeddings under which the strings of near are close to each other (cosine
\* 0.9) and every other pair is apart (cosine 0.5)
ClusterSim(near) == [p \in ExpPairs |-> IF p \subseteq near THEN 90 ELSE 50]
ExpSimFunctions == {ClusterSim({})} \cup {ClusterSim(p) : p \in ExpPairs}

\* The thresholds a caller passes: none, 0.0, 0.5, 0.7, 1.0
Thresholds == {NoThreshold, 0, 50, 70, 100}

\* The lists of at most n distinct strings of S
RECURSIVE DistinctSeqs(_, _)
DistinctSeqs(S, n) ==
    IF n = 0 THEN {<<>>}
    ELSE {<<>>} \cup UNION {{<<x>> \o t : t \in DistinctSeqs(S \ {x}, n - 1)} : x \in S}

\* response.split('\n'), stripped, without the empty lines: any number of
\* lines, in any order, the same line possibly twice
ResponseLines == DistinctSeqs(ExpStrings, MaxLines) \cup SeqsUpTo(ExpStrings, 2)

\* filter_similar_queries(queries, threshold)
FilterSimilarQueries ==
    /\ fq.pc = "none"
    /\ xq.pc = "none"
    /\ \E queries \in SeqsUpTo(ExpStrings, MaxQueries), threshold \in Thresholds,
          simf \in ExpSimFunctions :
          fq' = [pc |-> "returned", queries |-> queries, threshold |-> threshold,
                 simf |-> simf,
                 out |-> filter_similar_queries(simf, queries, threshold)]
    /\ UNCHANGED <<documents, bm25, hs, gc, engineVars, storeVars, ingestVars, reportVars, xq, ec, processVars>>

\* expand_query(query) without context
ExpandQuery ==
    /\ fq.pc = "none"
    /\ xq.pc = "none"
    /\ \E query \in Questions, all_variations \in ResponseLines,
          simf \in ExpSimFunctions, raises \in BOOLEAN :
          xq' = [pc |-> "returned", query |-> query,
                 all_variations |-> all_variations, simf |-> simf,
                 raises |-> raises,
                 out |-> expand_query(simf, query, all_variations, raises)]
    /\ UNCHANGED <<documents, bm25, hs, gc, engineVars, storeVars, ingestVars, reportVars, fq, ec, processVars>>

\* The caller takes the returned value
ExpanderTaken ==
    /\ fq.pc = "returned" \/ xq.pc = "returned"
    /\ fq' = NoCall
    /\ xq' = NoCall
    /\ UNCHANGED <<documents, bm25, hs, gc, engineVars, storeVars, ingestVars, reportVars, ec, processVars>>

ExpanderInit == RetrieverInit

ExpanderNext == FilterSimilarQueries \/ ExpandQuery \/ ExpanderTaken

SpecExpander == ExpanderInit /\ [][ExpanderNext]_vars

\* ------------------------------------------------------------------------
\* Properties of the query expander
\* ------------------------------------------------------------------------

\* The threshold the caller asked for: the one passed, 0.7 when none was
ThresholdAsked(threshold) ==
    IF threshold = NoThreshold THEN similarity_threshold ELSE threshold

\* C19: for every threshold in [0, 1], and for the default 0.7 when none is
\* passed, filter_similar_queries keeps the first candidate and no two kept
\* queries are more similar to each other than the threshold.
C19_KeptPairsWithinThreshold ==
    fq.pc = "returned" =>
        /\ fq.queries # <<>> => fq.out # <<>> /\ fq.out[1] = fq.queries[1]
        /\ \A i, j \in 1..Len(fq.out) :
              i < j => calculate_similarity(fq.simf, fq.out[i], fq.out[j])
                           <= ThresholdAsked(fq.threshold)

\* C20: the expansion list expand_query returns always contains the original
\* query, whatever the number and order of the generated variations, and on
\* failure.
C20_ExpansionsHoldOriginal ==
    xq.pc = "returned" => xq.query \in Range(xq.out.expansions)

\* C21: no two members of the expansion list expand_query returns, the
\* original query included, are more similar to each other than the
\* configured similarity threshold.
C21_ExpansionsPairwiseDissimilar ==
    xq.pc = "returned" =>
        \A i, j \in 1..Len(xq.out.expansions) :
            i < j => calculate_similarity(xq.simf, xq.out.expansions[i],
                                          xq.out.expansions[j])
                         <= similarity_threshold

\* ------------------------------------------------------------------------
\* RAGEngine.process_document and VectorStore.add_embeddings, on one event
\* loop: a call runs until it awaits collection.add
\* ------------------------------------------------------------------------
MaxIngests == 2

\* The number of pages process_pdf extracted: it returns one metadata record
\* per page, whatever the number of chunks
PageCounts == 1..3

\* The chunks process_pdf returns (none when every chunk was filtered out),
\* the texts add_embeddings is called with
PdfChunks == ChunkLists \cup {<<>>}

\* The metadata records process_pdf builds for n pages
PageMetadata(n) == [i \in 1..n |-> [page |-> i]]

\* The metadata argument of add_embeddings: None, or a list of records
MetadataArguments == {Null} \cup {Some(PageMetadata(n)) : n \in 0..3}

\* metadata + [{"chunk_index": i} for i in range(len(metadata), len(texts))]
Padded(metadata, n) ==
    [i \in 1..n |-> IF i <= Len(metadata) THEN metadata[i]
                    ELSE [chunk_index |-> i - 1]]

\* The metadata list add_embeddings goes on with: None when building the
\* default records raises (import_time is not defined in the module)
Reconciled(texts, metadata) ==
    IF metadata = Null THEN Null
    ELSE IF Len(metadata[1]) > Len(texts)
         THEN Some(SubSeq(metadata[1], 1, Len(texts)))
         ELSE Some(Padded(metadata[1], Len(texts)))

\* What a call returns or raises, with the failure the environment injected
IngestReturn(call, failed, raised, returned) ==
    [pc |-> "returned", kind |-> call.kind, texts |-> call.texts,
     metadata_arg |-> call.metadata_arg, ids |-> call.ids,
     failed |-> failed, raised |-> raised, returned |-> returned]

\* A failure is reported as a count of zero chunks
IngestError_swallowed(call, failed, error) ==
    IngestReturn(call, failed, None, Some(0))

\* except Exception as e: logger.error(...); raise
IngestError(call, failed, error) ==
    IngestReturn(call, failed, error, Null)

\* The document is reported as a failure
NoChunks_raises(call) == IngestReturn(call, None, "NoChunks", Null)

\* if not chunks: logger.warning(...); return 0
NoChunks(call) == IngestReturn(call, None, None, Some(0))

\* add_embeddings(texts, metadata) up to its await of collection.add: the
\* metadata is reconciled, the texts are embedded, the ids are made from the
\* position and the clock, the embeddings are cached.  failed is the step the
\* environment makes fail ("None": no step), n the number of setex calls made.
AddStart(kind, texts, metadata_arg, failed, n) ==
    LET metadata == Reconciled(texts, metadata_arg)
        ids == Ids(texts, now)
        call == [kind |-> kind, texts |-> texts, metadata_arg |-> metadata_arg,
                 metadata |-> IF metadata = Null THEN <<>> ELSE metadata[1],
                 ids |-> ids]
        ended(r) == pd' = [pd EXCEPT !.started = @ + 1, !.ret = r]
    IN  /\ failed \in {None, "encode", "cache"}
        /\ IF failed = "cache" THEN n < Len(texts) ELSE n = Len(texts)
        /\ IF metadata = Null
           THEN /\ failed = None
                /\ ended(IngestError([call EXCEPT !.ids = <<>>], None, "NameError"))
                /\ redis' = redis
           ELSE IF failed = "encode"
           THEN /\ ended(IngestError([call EXCEPT !.ids = <<>>], failed, "encode"))
                /\ redis' = redis
           ELSE IF failed = "cache"
           THEN /\ ended(IngestError(call, failed, "cache"))
                /\ redis' = CacheEmbeddings(redis, texts, ids, call.metadata, n, now)
           ELSE /\ redis' = CacheEmbeddings(redis, texts, ids, call.metadata, n, now)
                /\ IF collection.created
                   THEN pd' = [pd EXCEPT !.started = @ + 1,
                                         !.inflight = @ (+) SetToBag({call})]
                   ELSE ended(IngestError(call, None, "AttributeError"))

\* process_document(pdf_path): process_pdf raises, or returns the chunks and
\* one metadata record per page; without chunks the call returns 0, with
\* chunks it goes into add_embeddings.
ProcessDocument ==
    /\ pd.ret.pc = "none"
    /\ pd.started < MaxIngests
    /\ \E chunks \in PdfChunks, pages \in PageCounts, pdf_ok \in BOOLEAN,
          failed \in {None, "encode", "cache"}, n \in 0..Len(DocSeq) :
          LET call == [kind |-> "process_document", texts |-> chunks,
                       metadata_arg |-> Some(PageMetadata(pages)), ids |-> <<>>]
          IN  IF ~pdf_ok
              THEN /\ chunks = <<>> /\ pages = 1 /\ failed = None /\ n = 0
                   /\ pd' = [pd EXCEPT !.started = @ + 1,
                                       !.ret = IngestError([call EXCEPT !.metadata_arg = Null],
                                                           "pdf", "pdf")]
                   /\ redis' = redis
              ELSE IF chunks = <<>>
              THEN /\ failed = None /\ n = 0
                   /\ pd' = [pd EXCEPT !.started = @ + 1, !.ret = NoChunks(call)]
                   /\ redis' = redis
              ELSE AddStart("process_document", chunks, Some(PageMetadata(pages)),
                            failed, n)
    /\ UNCHANGED <<collection, now, ss, sr, dbret>>
    /\ UNCHANGED <<retrieverVars, gc, engineVars, expanderVars, reportVars, processVars>>

\* add_embeddings(texts, metadata) called on its own, with or without
\* metadata; without texts it returns at once.
AddEmbeddingsCall ==
    /\ pd.ret.pc = "none"
    /\ pd.started < MaxIngests
    /\ \E texts \in PdfChunks, metadata_arg \in MetadataArguments,
          failed \in {None, "encode", "cache"}, n \in 0..Len(DocSeq) :
          IF texts = <<>>
          THEN /\ failed = None /\ n = 0
               /\ pd' = [pd EXCEPT !.started = @ + 1,
                                   !.ret = IngestReturn(
                                       [kind |-> "add_embeddings", texts |-> texts,
                                        metadata_arg |-> metadata_arg, ids |-> <<>>],
                                       None, None, Some(None))]
               /\ redis' = redis
          ELSE AddStart("add_embeddings", texts, metadata_arg, failed, n)
    /\ UNCHANGED <<collection, now, ss, sr, dbret>>
    /\ UNCHANGED <<retrieverVars, gc, engineVars, expanderVars, reportVars, processVars>>

\* collection.add answers.  add_embeddings returns or raises; after it
\* process_document builds the lexical index from the chunks of this
\* document, counts the document and returns the number of chunks.
CollectionAdded(call) ==
    /\ pd.ret.pc = "none"
    /\ BagIn(call, pd.inflight)
    /\ \E failed \in {None, "database", "index"} :
          LET left == pd.inflight (-) SetToBag({call})
              added == [collection EXCEPT
                          !.items = CollectionAdd(@, call.texts, call.ids, call.metadata)]
          IN  /\ failed = "index" => call.kind = "process_document"
              /\ collection' = IF failed = "database" THEN collection ELSE added
              /\ IF failed # None
                 THEN /\ pd' = [pd EXCEPT !.inflight = left,
                                          !.ret = IngestError(call, failed, failed)]
                      /\ UNCHANGED <<documents, bm25, metrics>>
                 ELSE IF call.kind = "add_embeddings"
                 THEN /\ pd' = [pd EXCEPT !.inflight = left,
                                          !.ret = IngestReturn(call, None, None, Some(None))]
                      /\ UNCHANGED <<documents, bm25, metrics>>
                 ELSE /\ documents' = call.texts
                      /\ bm25' = [built |-> TRUE, corpus |-> call.texts]
                      /\ metrics' = [metrics EXCEPT !.total_documents = @ + 1]
                      /\ pd' = [pd EXCEPT !.inflight = left,
                                          !.written = @ \cup Range(call.texts),
                                          !.ret = IngestReturn(call, None, None,
                                                               Some(Len(call.texts)))]
    /\ UNCHANGED <<redis, now, ss, sr, dbret>>
    /\ UNCHANGED <<hs, gc, temperature, calls, engine, expanderVars, reportVars, processVars>>

\* The caller has the count, or the exception
IngestTaken ==
    /\ pd.ret.pc = "returned"
    /\ pd' = [pd EXCEPT !.ret = NoCall]
    /\ UNCHANGED <<retrieverVars, gc, engineVars, storeVars, expanderVars, reportVars, processVars>>

\* The clock advances while no call is running between two awaits: the next
\* call is made in the same second as the last one, or in a later one
IngestTick ==
    /\ pd.ret.pc = "none"
    /\ now < TickSeconds
    /\ Tick

IngestInit == RetrieverInit

IngestNext ==
    \/ Initialize
    \/ ProcessDocument
    \/ AddEmbeddingsCall
    \/ \E call \in BagToSet(pd.inflight) : CollectionAdded(call)
    \/ IngestTaken
    \/ IngestTick

SpecIngest == IngestInit /\ [][IngestNext]_vars

\* ------------------------------------------------------------------------
\* Properties of document ingestion
\* ------------------------------------------------------------------------

\* A process_document call is waiting for collection.add
Ingesting == \E call \in BagToSet(pd.inflight) : call.kind = "process_document"

\* A process_document call ends in this step
DocumentEnds ==
    /\ pd.ret.pc = "none"
    /\ pd'.ret.pc = "returned"
    /\ pd'.ret.kind = "process_document"

\* C22: whenever no process_document call is in progress, the chunk texts the
\* lexical index covers are the chunk texts written to the vector store by
\* the process_document calls that succeeded so far.
C22_IndexCoversWrittenChunks ==
    ~Ingesting => Range(documents) = pd.written

\* C23: when add_embeddings or index_documents fails during process_document,
\* the failure is raised to the caller, no chunk count is returned and the
\* processed-document counter keeps its value.
C23_IngestionFailurePropagates ==
    [][(/\ DocumentEnds
        /\ \/ pd'.ret.failed \in {"encode", "cache", "database", "index"}
           \/ pd'.ret.raised = "AttributeError")
       => /\ pd'.ret.raised # None
          /\ pd'.ret.returned = Null
          /\ metrics'.total_documents = metrics.total_documents]_vars

\* A process_document call has failed after its chunks went to the collection
C23_Witness ==
    /\ pd.ret.pc = "returned"
    /\ pd.ret.kind = "process_document"
    /\ pd.ret.failed = "index"
    /\ pd.ret.raised # None
    /\ \E j \in 1..Len(collection.items) : collection.items[j].id \in Range(pd.ret.ids)

\* C24: when the document processor yields no chunks, process_document
\* returns 0 without raising and leaves the vector store, the cache, the
\* lexical index and the processed-document counter as they were.
C24_NoChunksReturnsZero ==
    [][(DocumentEnds /\ pd'.ret.texts = <<>> /\ pd'.ret.failed = None)
       => /\ pd'.ret.returned = Some(0)
          /\ pd'.ret.raised = None
          /\ UNCHANGED <<collection, redis, documents, bm25, metrics>>]_vars

\* A document without chunks has been processed after one with chunks
C24_Witness ==
    /\ pd.ret.pc = "returned"
    /\ pd.ret.kind = "process_document"
    /\ pd.ret.texts = <<>>
    /\ pd.ret.failed = None
    /\ pd.ret.returned = Some(0)
    /\ bm25.built
    /\ metrics.total_documents = 1

\* The item add_embeddings is to write for its i-th text
IsTupleFor(item, ret, i) ==
    /\ item.id = ret.ids[i]
    /\ item.document = ret.texts[i]
    /\ IF ret.metadata_arg # Null /\ i <= Len(ret.metadata_arg[1])
       THEN item.metadata = ret.metadata_arg[1][i]
       ELSE "chunk_index" \in DOMAIN item.metadata

\* C25: for non-empty texts and any metadata argument (absent, shorter than,
\* as long as or longer than texts), add_embeddings succeeds when the
\* backends are reachable (no backend call fails and the collection is not
\* None) and writes one tuple per text, with the caller's i-th record where
\* one was given and a synthesized record otherwise.
C25_OneTuplePerText ==
    (/\ pd.ret.pc = "returned"
     /\ pd.ret.kind = "add_embeddings"
     /\ pd.ret.texts # <<>>
     /\ pd.ret.failed = None
     /\ pd.ret.raised # "AttributeError")
    => /\ pd.ret.raised = None
       /\ \A i \in 1..Len(pd.ret.texts) :
             Cardinality({j \in 1..Len(collection.items) :
                             IsTupleFor(collection.items[j], pd.ret, i)}) = 1

\* ------------------------------------------------------------------------
\* Properties of the metrics report, of the retries, of cancellation and of
\* the order of the steps of an answer cycle
\* ------------------------------------------------------------------------

\* The quotient q is the number num / den
IsQuotient(q, num, den) == q.den # 0 /\ q.num * den = num * q.den

\* C26: get_performance_metrics never raises; it returns success_rate =
\* successful / (successful + failed) * 100, or 0 when no query was counted
\* (50 after one success and one failure), the arithmetic means of the
\* response times and of the relevance scores, or 0 for an empty sequence,
\* the current temperature and the whole temperature history.
C26_MetricsReport ==
    pm.pc = "returned" =>
        LET s == metrics.successful_queries
            f == metrics.failed_queries
        IN  /\ pm.raised = None
            /\ IF s + f = 0 THEN IsQuotient(pm.out.success_rate, 0, 1)
               ELSE IsQuotient(pm.out.success_rate, s * 100, s + f)
            /\ (s = 1 /\ f = 1) => IsQuotient(pm.out.success_rate, 50, 1)
            /\ IF metrics.avg_response_time = <<>>
               THEN IsQuotient(pm.out.avg_response_time, 0, 1)
               ELSE IsQuotient(pm.out.avg_response_time,
                               SumSeq(metrics.avg_response_time),
                               Len(metrics.avg_response_time))
            /\ IF metrics.avg_relevance_score = <<>>
               THEN IsQuotient(pm.out.avg_relevance_score, 0, 1)
               ELSE IsQuotient(pm.out.avg_relevance_score,
                               SumSeq(metrics.avg_relevance_score),
                               Len(metrics.avg_relevance_score))
            /\ pm.out.current_temperature = temperature
            /\ pm.out.temperature_history = metrics.temp_adjustments

\* The report is made after one answered and one failed query
C26_Witness ==
    /\ pm.pc = "returned"
    /\ metrics.successful_queries = 1
    /\ metrics.failed_queries = 1
    /\ pm.out.success_rate = Quotient(100, 2)
    /\ pm.out.temperature_history # <<>>

\* C27: a generate call makes at most 3 attempts; a successful attempt ends
\* the call (no further attempt follows), and the call fails only when its
\* third attempt has failed.
C27_AtMostThreeAttempts ==
    [][\A c \in Calls :
          calls[c].pc = "generating" =>
              /\ calls[c].attempts \in 1..StopAfterAttempt
              /\ calls'[c].pc = "generating"
                    => calls'[c].attempts \in {calls[c].attempts, calls[c].attempts + 1}
              /\ (calls'[c].pc = "done" /\ calls'[c].outcome = "generation_failed")
                    => calls[c].attempts = StopAfterAttempt
              /\ (calls'[c].pc = "done" /\ calls'[c].outcome # "generation_failed")
                    => calls'[c].outcome \in {"answered", "grading_failed",
                                               "print_failed"}]_vars

\* A generate call has failed for the third time
C27_Witness ==
    \E c \in Calls :
        /\ calls[c].pc = "done"
        /\ calls[c].outcome = "generation_failed"
        /\ calls[c].attempts = StopAfterAttempt

\* C28: an answer_question call cancelled while it waits (for the query
\* expansion, for a hybrid search or for the inference backend) changes
\* neither successful_queries nor failed_queries and appends nothing to the
\* response times, the relevance scores or the temperature history.
C28_CancelledCallIsNotCounted ==
    [][\A c \in Calls :
          (calls[c].pc # "cancelled" /\ calls'[c].pc = "cancelled")
              => /\ metrics' = metrics
                 /\ temperature' = temperature]_vars

\* A call has been cancelled while it waited for the inference backend,
\* after another query was counted
C28_Witness ==
    \E c \in Calls :
        /\ calls[c].pc = "cancelled"
        /\ calls[c].at = "generating"
        /\ metrics.successful_queries + metrics.failed_queries > 0

\* The positions an answer cycle passes through, in order; from each of the
\* waiting positions the cycle can also be cancelled
StepOrder ==
    {<<"idle", "expanding">>, <<"expanding", "retrieving">>,
     <<"retrieving", "generating">>, <<"retrieving", "done">>,
     <<"generating", "done">>, <<"done", "idle">>,
     <<"expanding", "cancelled">>, <<"retrieving", "cancelled">>,
     <<"generating", "cancelled">>, <<"cancelled", "idle">>}

NormalizedToWeight(results, normalized, weight) ==
    results # <<>> =>
        \A i \in 1..Len(results) :
            /\ normalized[i] >= 0
            /\ normalized[i] <= weight
            /\ results[i].score = MaxScore(Scores(results)) => normalized[i] = weight

\* Every normalized score of the list is within [0, weight]; the greatest raw
\* score is normalized to weight when it is positive, and every score to 0
\* when it is not
NormalizedToWeightOrZero(results, normalized, weight) ==
    results # <<>> =>
        \A i \in 1..Len(results) :
            /\ normalized[i] >= 0
            /\ normalized[i] <= weight
            /\ IF MaxScore(Scores(results)) > 0
               THEN results[i].score = MaxScore(Scores(results)) => normalized[i] = weight
               ELSE normalized[i] = 0

FirstOccurrence(all_contexts, document) ==
    CHOOSE i \in 1..Len(all_contexts) :
        /\ all_contexts[i].document = document
        /\ \A j \in 1..(i - 1) : all_contexts[j].document # document

\* The positions of a document text in a list of contexts
Occurrences(contexts, document) ==
    {i \in 1..Len(contexts) : contexts[i].document = document}

ReturnedSeveralTimes(all_contexts) ==
    {all_contexts[i].document : i \in {i \in 1..Len(all_contexts) :
        Cardinality(Occurrences(all_contexts, all_contexts[i].document)) > 1}}

\* C31 as stated: a document text returned for several searches has exactly
\* one entry in the list _get_contexts returns, with the score of its first
\* occurrence in the concatenated results.
C31_ExactlyOneEntry ==
    gc.pc = "returned" =>
        \A document \in ReturnedSeveralTimes(gc.all_contexts) :
            /\ Cardinality(Occurrences(gc.out, document)) = 1
            /\ \A i \in Occurrences(gc.out, document) :
                  gc.out[i] = gc.all_contexts[FirstOccurrence(gc.all_contexts, document)]

\* C31: when _get_contexts returns, a document text returned by the searches,
\* once or several times, has at most one entry in the returned list, that
\* entry is its first occurrence in the concatenated results, whatever the
\* later scores, and the entry is there whenever the distinct document texts
\* fit within max_contexts.
C31_FirstOccurrenceKept ==
    [][(gc.pc = "searching" /\ gc'.pc = "returned") =>
        /\ \A i \in 1..Len(gc'.out) :
              /\ \A j \in 1..Len(gc'.out) :
                    gc'.out[j].document = gc'.out[i].document => j = i
              /\ \E k \in 1..Len(gc.all_contexts) :
                    /\ gc.all_contexts[k] = gc'.out[i]
                    /\ \A m \in 1..(k - 1) :
                          gc.all_contexts[m].document # gc'.out[i].document
        /\ Cardinality({gc.all_contexts[k].document : k \in 1..Len(gc.all_contexts)})
               <= gc.max_contexts =>
              \A k \in 1..Len(gc.all_contexts) :
                  \E i \in 1..Len(gc'.out) :
                      gc'.out[i].document = gc.all_contexts[k].document]_vars

\* A document came back twice, the later time with the higher score, and
\* the returned entry carries the earlier, lower score
C31_Witness ==
    /\ gc.pc = "returned"
    /\ \E document \in ReturnedSeveralTimes(gc.all_contexts) :
          LET first == FirstOccurrence(gc.all_contexts, document)
          IN  /\ \E j \in Occurrences(gc.all_contexts, document) :
                    j > first /\ gc.all_contexts[j].score > gc.all_contexts[first].score
              /\ \E i \in Occurrences(gc.out, document) :
                    gc.out[i].score = gc.all_contexts[first].score

\* ---------------------------------------------------------------------
\* QueryExpander.generate_semantic_variations and its expansion cache
\* ---------------------------------------------------------------------

\* The number of cache entries the model allows; self.max_cache_size is 1000
\* in the source, the comparison with it is the source's
MaxCacheSize == 2
MaxCacheCalls == 4

max_cache_size == MaxCacheSize

\* With two values of num_variations, enough keys to overflow the cache
CacheQueries == 1..MaxCacheSize
NumVariations == {3, 5}

\* cache_key = f"semantic_{query}_{num_variations}"
semantic_key(query, num_variations) == <<"semantic", query, num_variations>>

\* The response text of the backend as its lines (response.split('\n'))
ResponseTexts ==
    {<<"">>, <<" ">>, <<"v1">>, <<" v1 ", "", "v2">>}

\* not response
EmptyResponse(response) == response = <<"">>

\* v.strip()
Strip(line) == CASE line = " " -> "" [] line = " v1 " -> "v1" [] OTHER -> line

\* [v.strip() for v in response.split('\n') if v.strip()]
StrippedLines(response) ==
    LET F[i \in 0..Len(response)] ==
            IF i = 0 THEN <<>>
            ELSE IF Strip(response[i]) # "" THEN Append(F[i - 1], Strip(response[i]))
                 ELSE F[i - 1]
    IN  F[Len(response)]

\* cache_key in self.expansion_cache
Cached(cache, key) == \E i \in 1..Len(cache) : cache[i].key = key

\* self.expansion_cache[cache_key]
Lookup(cache, key) == cache[CHOOSE i \in 1..Len(cache) : cache[i].key = key].variations

\* The variant of popitem that removes the item inserted last
Popitem_last(cache) == SubSeq(cache, 1, Len(cache) - 1)

\* self.expansion_cache.popitem(last=False): the item inserted first goes
Popitem(cache) == Tail(cache)

\* self.expansion_cache[cache_key] = variations: a new key goes to the end,
\* a key already there keeps its place and gets the new value; then
\* if len(self.expansion_cache) > self.max_cache_size: popitem(last=False)
UpdateCache(cache, key, variations, stamp) ==
    LET set == IF Cached(cache, key)
               THEN [i \in 1..Len(cache) |->
                        IF cache[i].key = key
                        THEN [cache[i] EXCEPT !.variations = variations]
                        ELSE cache[i]]
               ELSE Append(cache, [key |-> key, variations |-> variations, at |-> stamp])
    IN  IF Len(set) > max_cache_size THEN Popitem(set) ELSE set

\* generate_semantic_variations(query, num_variations) up to its return from
\* the cache or to its await of _call_ollama
GenerateSemanticVariations ==
    /\ ec.ret.pc = "none"
    /\ ec.started < MaxCacheCalls
    /\ \E query \in CacheQueries, num_variations \in NumVariations :
          LET key == semantic_key(query, num_variations)
          IN  IF Cached(ec.cache, key)
              THEN ec' = [ec EXCEPT !.started = @ + 1,
                                    !.ret = [pc |-> "returned", key |-> key,
                                             hit |-> TRUE,
                                             out |-> Lookup(ec.cache, key)]]
              ELSE ec' = [ec EXCEPT !.started = @ + 1,
                                    !.backend = @ + 1,
                                    !.inflight = @ (+) SetToBag({key})]
    /\ UNCHANGED <<documents, bm25, hs, gc, engineVars, storeVars, ingestVars, reportVars, fq, xq, processVars>>

\* _call_ollama returns or raises and generate_semantic_variations runs to
\* its end: an empty response and an exception return [] and leave the cache
\* alone
CallOllamaReturns(key) ==
    /\ ec.ret.pc = "none"
    /\ BagIn(key, ec.inflight)
    /\ \E response \in ResponseTexts, raises \in BOOLEAN :
          LET left == ec.inflight (-) SetToBag({key})
              variations == StrippedLines(response)
              new == ~Cached(ec.cache, key)
          IN  IF raises \/ EmptyResponse(response)
              THEN ec' = [ec EXCEPT !.inflight = left,
                                    !.ret = [pc |-> "returned", key |-> key,
                                             hit |-> FALSE, out |-> <<>>]]
              ELSE ec' = [ec EXCEPT !.inflight = left,
                                    !.inserted = IF new THEN @ + 1 ELSE @,
                                    !.cache = UpdateCache(@, key, variations,
                                                          ec.inserted + 1),
                                    !.ret = [pc |-> "returned", key |-> key,
                                             hit |-> FALSE, out |-> variations]]
    /\ UNCHANGED <<documents, bm25, hs, gc, engineVars, storeVars, ingestVars, reportVars, fq, xq, processVars>>

\* The caller takes the returned variations
VariationsTaken ==
    /\ ec.ret.pc = "returned"
    /\ ec' = [ec EXCEPT !.ret = NoCall]
    /\ UNCHANGED <<documents, bm25, hs, gc, engineVars, storeVars, ingestVars, reportVars, fq, xq, processVars>>

CacheKeys == {semantic_key(q, n) : q \in CacheQueries, n \in NumVariations}

CacheInit == RetrieverInit

CacheNext ==
    \/ GenerateSemanticVariations
    \/ \E key \in CacheKeys : CallOllamaReturns(key)
    \/ VariationsTaken

SpecCache == CacheInit /\ [][CacheNext]_vars

\* The keys of the cache
CacheKeysOf(cache) == {cache[i].key : i \in 1..Len(cache)}

\* The key of the cache whose insertion is the earliest
Earliest(cache) ==
    cache[CHOOSE i \in 1..Len(cache) :
              \A j \in 1..Len(cache) : cache[i].at <= cache[j].at].key

\* C32: the expansion cache never holds more than max_cache_size entries; a
\* key leaves the cache only when a new key is inserted into the full cache,
\* and the key that leaves is then the one inserted earliest; a call whose key is
\* cached returns the cached variations and makes no backend call.
C32_CacheBoundedFifoAndHits ==
    [][/\ Len(ec'.cache) <= max_cache_size
       /\ CacheKeysOf(ec.cache) \ CacheKeysOf(ec'.cache) =
             IF ec'.inserted = ec.inserted + 1 /\ Len(ec.cache) = max_cache_size
             THEN {Earliest(ec.cache)}
             ELSE {}
       /\ \A key \in CacheKeysOf(ec.cache) :
             (ec'.started = ec.started + 1 /\ ec'.ret.pc = "returned"
                 /\ ec'.ret.key = key) =>
                /\ ec'.ret.out = Lookup(ec.cache, key)
                /\ ec'.backend = ec.backend
                /\ ec'.cache = ec.cache]_vars

\* The full cache has lost its earliest key to a new one, and a later call
\* for a cached key has been answered from the cache
C32_Witness ==
    /\ Len(ec.cache) = max_cache_size
    /\ ec.inserted > max_cache_size
    /\ ec.ret.pc = "returned"
    /\ ec.ret.hit
    /\ ec.ret.out # <<>>
    /\ ec.backend < ec.started

\* ---------------------------------------------------------------------
\* C33, C34: what answer_question does to the metrics
\* ---------------------------------------------------------------------

\* Call c returns the no-context response or the error response in this step
EndsWithoutAnswer(c) ==
    /\ calls[c].pc \notin {"done", "idle"}
    /\ calls'[c].pc = "done"
    /\ calls'[c].response.error # Null

\* C33 as stated: a call that ends with the no-context response or with the
\* error response changes failed_queries and nothing else of the metrics or
\* the temperature.
C33_OnlyFailedQueriesChanges ==
    [][\A c \in Calls :
          EndsWithoutAnswer(c) =>
              /\ temperature' = temperature
              /\ metrics' = [metrics EXCEPT !.failed_queries = @ + 1]]_vars

\* s is t or a beginning of t
IsBeginning(s, t) == Len(s) <= Len(t) /\ s = SubSeq(t, 1, Len(s))

\* C34: the response-time sequence, the relevance-score sequence and the
\* temperature history have as many entries as successful_queries says, in
\* every state, and a step only ever adds entries at their ends.
C34_SequencesFollowSuccessful ==
    [][/\ Len(metrics.avg_response_time) = metrics.successful_queries
       /\ Len(metrics.avg_relevance_score) = metrics.successful_queries
       /\ Len(metrics.temp_adjustments) = metrics.successful_queries
       /\ Len(metrics'.avg_response_time) = metrics'.successful_queries
       /\ Len(metrics'.avg_relevance_score) = metrics'.successful_queries
       /\ Len(metrics'.temp_adjustments) = metrics'.successful_queries
       /\ IsBeginning(metrics.avg_response_time, metrics'.avg_response_time)
       /\ IsBeginning(metrics.avg_relevance_score, metrics'.avg_relevance_score)
       /\ IsBeginning(metrics.temp_adjustments, metrics'.temp_adjustments)]_vars

\* Two calls were graded and one of them returned the error response after
\* its print failed, so it is counted as failed too
C34_Witness ==
    /\ metrics.successful_queries = 2
    /\ metrics.failed_queries >= 1
    /\ Len(metrics.temp_adjustments) = 2
    /\ \E c \in Calls : calls[c].pc = "done" /\ calls[c].outcome = "print_failed"

\* ---------------------------------------------------------------------
\* C35: the number of results of VectorStore.search
\* ---------------------------------------------------------------------

\* C35 as stated: a search(query, k) call that returns a list returns at
\* most k results, whatever searches were made before it.
C35_AtMostKResults ==
    (sr.pc = "returned" /\ sr.raised = None) => Len(sr.out) <= sr.k

\* ---------------------------------------------------------------------
\* C36: the ids add_embeddings generates
\* ---------------------------------------------------------------------

\* The ids of the chunks the collection holds
StoredIds == {collection.items[j].id : j \in 1..Len(collection.items)}

\* C36 as stated: the ids of the add_embeddings calls on one collection are
\* unique: a call waiting for collection.add has no id in common with
\* another waiting call or with a chunk the collection already holds.
C36_IdsUniqueAcrossCalls ==
    \A a \in BagToSet(pd.inflight) :
        /\ a.ids # <<>> => CopiesIn(a, pd.inflight) = 1
        /\ Range(a.ids) \cap StoredIds = {}
        /\ \A b \in BagToSet(pd.inflight) \ {a} : Range(a.ids) \cap Range(b.ids) = {}

\* ---------------------------------------------------------------------
\* DocumentWatcher.on_created: process_document, and with it
\* index_documents, runs on the watchdog thread (asyncio.run), while
\* hybrid_search runs on the thread of the application's event loop.  The two
\* threads share self.documents and self.bm25 without a lock; a thread
\* switch can fall between any two statements.
\* ---------------------------------------------------------------------

MaxIndexings == 2

\* index_documents, first statement: self.documents = documents
WatcherAssignsDocuments ==
    /\ wt.pc = "idle"
    /\ wt.started < MaxIndexings
    /\ \E chunks \in ChunkLists :
          /\ documents' = chunks
          /\ wt' = [wt EXCEPT !.pc = "tokenizing", !.started = @ + 1]
    /\ UNCHANGED <<bm25, hs, gc>>
    /\ UNCHANGED <<engineVars, storeVars, expanderVars, ingestVars, reportVars, sv, ck>>

\* index_documents, after the tokenization of the documents:
\* self.bm25 = BM25Okapi(tokenized_docs)
WatcherAssignsIndex ==
    /\ wt.pc = "tokenizing"
    /\ bm25' = [built |-> TRUE, corpus |-> documents]
    /\ wt' = [wt EXCEPT !.pc = "idle"]
    /\ UNCHANGED <<documents, hs, gc>>
    /\ UNCHANGED <<engineVars, storeVars, expanderVars, ingestVars, reportVars, sv, ck>>

\* hybrid_search after the dense search: bm25_scores =
\* self.bm25.get_scores(tokenized_query), one score per document of the
\* index's corpus (AttributeError, caught, when there is no index yet), and
\* top_sparse_indices
SparseScores ==
    /\ wt.search.pc = "none"
    /\ \E k \in 1..MaxK :
          IF ~bm25.built
          THEN wt' = [wt EXCEPT !.search = [pc |-> "returned", k |-> k,
                                            caught |-> "AttributeError",
                                            sparse_results |-> <<>>]]
          ELSE \E bm25_scores \in [1..Len(bm25.corpus) -> RawScores] :
                  wt' = [wt EXCEPT !.search =
                            [pc |-> "scored", k |-> k,
                             corpus |-> bm25.corpus,
                             bm25_scores |-> bm25_scores,
                             top_sparse_indices |->
                                 Reverse(LastK(ArgSort(bm25_scores), k))]]
    /\ UNCHANGED <<documents, bm25, hs, gc>>
    /\ UNCHANGED <<engineVars, storeVars, expanderVars, ingestVars, reportVars, sv, ck>>

\* The list comprehension over top_sparse_indices: self.documents[i] is read
\* now, with the scores computed before; an index beyond the list raises
\* IndexError, which the handler of hybrid_search catches.  scored is the
\* text the score was computed for.
PairedResults(search, docs) ==
    [j \in 1..Len(search.top_sparse_indices) |->
        [document |-> docs[search.top_sparse_indices[j]],
         score |-> search.bm25_scores[search.top_sparse_indices[j]],
         scored |-> search.corpus[search.top_sparse_indices[j]]]]

SparseResultsRead ==
    /\ wt.search.pc = "scored"
    /\ wt' = [wt EXCEPT !.search =
                IF \E j \in 1..Len(wt.search.top_sparse_indices) :
                       wt.search.top_sparse_indices[j] > Len(documents)
                THEN [pc |-> "returned", k |-> wt.search.k, caught |-> "IndexError",
                      sparse_results |-> <<>>]
                ELSE [pc |-> "returned", k |-> wt.search.k, caught |-> None,
                      sparse_results |-> PairedResults(wt.search, documents)]]
    /\ UNCHANGED <<documents, bm25, hs, gc>>
    /\ UNCHANGED <<engineVars, storeVars, expanderVars, ingestVars, reportVars, sv, ck>>

\* hybrid_search goes on with the sparse results
SparseResultsTaken ==
    /\ wt.search.pc = "returned"
    /\ wt' = [wt EXCEPT !.search = NoCall]
    /\ UNCHANGED <<documents, bm25, hs, gc>>
    /\ UNCHANGED <<engineVars, storeVars, expanderVars, ingestVars, reportVars, sv, ck>>

WatcherInit == RetrieverInit

WatcherNext ==
    \/ WatcherAssignsDocuments
    \/ WatcherAssignsIndex
    \/ SparseScores
    \/ SparseResultsRead
    \/ SparseResultsTaken

SpecWatcher == WatcherInit /\ [][WatcherNext]_vars

\* C37 as stated: every sparse result of a hybrid_search that runs while the
\* watcher thread indexes a document pairs a lexical score with the document
\* text the score was computed for.
C37_ScoresPairedWithTheirDocuments ==
    wt.search.pc = "returned" =>
        \A j \in 1..Len(wt.search.sparse_results) :
            wt.search.sparse_results[j].document = wt.search.sparse_results[j].scored

\* ---------------------------------------------------------------------
\* ApplicationSupervisor (runner.py): run() loops on the main thread,
\* restart_application is called by the watchdog thread (CodeChangeHandler
\* .on_modified).  The threads share self.process and self.restart_count
\* without a lock.  sv.alive is the set of the child processes that run;
\* the clock comparisons are inputs.
\* ---------------------------------------------------------------------

MaxChildren == 3
MaxEvents == 2
max_restarts == 5

\* subprocess.Popen([sys.executable, "main.py"], ...): a new child runs, and
\* self.process is the new child
Popen(s) ==
    [s EXCEPT !.started = @ + 1,
              !.alive = @ \cup {s.started + 1},
              !.process = Some(s.started + 1)]

\* self.process.terminate(), self.process.wait(timeout=5) and, after the
\* timeout, kill() and wait(): the child self.process names is gone
Terminate(s) == [s EXCEPT !.alive = @ \ {s.process[1]}]

\* self.process.poll() is not None
Exited(s) == s.process[1] \notin s.alive

\* start_application: Popen, or an exception of Popen that is caught; then
\* restart_count is reset when the last restart is long ago
StartApplication(s, popen_ok, long_ago) ==
    IF ~popen_ok THEN s
    ELSE [Popen(s) EXCEPT !.restart_count = IF long_ago THEN 0 ELSE @]

\* run(), the head of the loop (lines 141-146): leave when should_run is
\* false; start the application when there is no child or the child has
\* exited; then call monitor_logs
MainChecks ==
    /\ sv.main = "loop"
    /\ sv.should_run
    /\ \E popen_ok \in BOOLEAN, long_ago \in BOOLEAN :
          IF sv.process = Null \/ Exited(sv)
          THEN /\ sv.started < MaxChildren
               /\ sv' = [StartApplication(sv, popen_ok, long_ago) EXCEPT
                           !.main = IF popen_ok THEN "monitor_logs" ELSE "loop"]
          ELSE /\ popen_ok /\ long_ago
               /\ sv' = [sv EXCEPT !.main = "monitor_logs"]
    /\ UNCHANGED <<retrieverVars, gc, engineVars, storeVars, expanderVars, ingestVars,
                   reportVars, wt, ck>>

\* monitor_logs, its first statement: if self.process; without a process
\* it returns at once and run() goes round its loop
MainEntersMonitor ==
    /\ sv.main = "monitor_logs"
    /\ sv' = [sv EXCEPT !.main = IF sv.process = Null THEN "loop" ELSE "monitoring"]
    /\ UNCHANGED <<retrieverVars, gc, engineVars, storeVars, expanderVars, ingestVars,
                   reportVars, wt, ck>>

\* monitor_logs, one turn of its loop that does not block: self.process is
\* read again; when it is None the attribute access raises AttributeError,
\* which leaves run() through its finally block (should_run = False,
\* stop_application); when the child has exited the loop breaks and run()
\* goes round its loop
MainMonitors ==
    /\ sv.main = "monitoring"
    /\ IF sv.process = Null
       THEN sv' = [sv EXCEPT !.main = "ended", !.should_run = FALSE]
       ELSE /\ Exited(sv)
            /\ sv' = [sv EXCEPT !.main = "loop"]
    /\ UNCHANGED <<retrieverVars, gc, engineVars, storeVars, expanderVars, ingestVars,
                   reportVars, wt, ck>>

\* A child process exits by itself
ChildExits ==
    /\ \E p \in sv.alive : sv' = [sv EXCEPT !.alive = @ \ {p}]
    /\ UNCHANGED <<retrieverVars, gc, engineVars, storeVars, expanderVars, ingestVars,
                   reportVars, wt, ck>>

\* restart_application on the watchdog thread, up to the end of the try
\* block of stop_application (lines 102, 82-96): the child self.process
\* names is terminated; without a process stop_application does nothing
RestartStops ==
    /\ sv.watcher = "idle"
    /\ sv.main # "ended"
    /\ sv.events < MaxEvents
    /\ sv' = IF sv.process = Null
             THEN [sv EXCEPT !.events = @ + 1, !.watcher = "limits"]
             ELSE [Terminate(sv) EXCEPT !.events = @ + 1, !.watcher = "stopped"]
    /\ UNCHANGED <<retrieverVars, gc, engineVars, storeVars, expanderVars, ingestVars,
                   reportVars, wt, ck>>

\* stop_application, its last statement: self.process = None
RestartClears ==
    /\ sv.watcher = "stopped"
    /\ sv' = [sv EXCEPT !.process = Null, !.watcher = "limits"]
    /\ UNCHANGED <<retrieverVars, gc, engineVars, storeVars, expanderVars, ingestVars,
                   reportVars, wt, ck>>

\* restart_application, lines 106-115: within the cooldown restart_count
\* grows and, at max_restarts, the thread sleeps restart_cooldown seconds and
\* resets it; then start_application
RestartStarts ==
    /\ sv.watcher = "limits"
    /\ sv.started < MaxChildren
    /\ \E within_cooldown \in BOOLEAN, popen_ok \in BOOLEAN :
          LET counted == IF ~within_cooldown THEN sv.restart_count
                         ELSE IF sv.restart_count + 1 >= max_restarts THEN 0
                         ELSE sv.restart_count + 1
          IN  sv' = [StartApplication([sv EXCEPT !.restart_count = counted],
                                      popen_ok, FALSE)
                        EXCEPT !.watcher = "idle"]
    /\ UNCHANGED <<retrieverVars, gc, engineVars, storeVars, expanderVars, ingestVars,
                   reportVars, wt, ck>>

SupervisorInit == RetrieverInit

SupervisorNext ==
    \/ MainChecks
    \/ MainEntersMonitor
    \/ MainMonitors
    \/ ChildExits
    \/ RestartStops
    \/ RestartClears
    \/ RestartStarts

SpecSupervisor == SupervisorInit /\ [][SupervisorNext]_vars

\* C38 as stated: with restart_application running on the watcher thread
\* while run() loops on the main thread, at most one child process started
\* by the supervisor is alive at any time.
C38_AtMostOneChildAlive ==
    Cardinality(sv.alive) <= 1

\* ---------------------------------------------------------------------
\* PDFProcessor._create_chunks.  A text is its length and the positions of
\* its periods (from 0, as in Python); the other characters are taken not
\* to be white space, so that a chunk is empty only when its slice is.
\* ---------------------------------------------------------------------

chunk_size == 500
chunk_overlap == 50

MaxPeriods == 2
MaxChunks == 3

TextLengths == {0, 1, 450, 500, 501, 550, 562, 700, 1100}
PeriodPositions == {2, 48, 49, 60, 499, 520, 699}

Texts ==
    {[len |-> n, periods |-> ps] :
        n \in TextLengths,
        ps \in {qs \in SUBSET PeriodPositions : Cardinality(qs) <= MaxPeriods}}
    \ {t \in [len : TextLengths, periods : SUBSET PeriodPositions] :
          \E p \in t.periods : p >= t.len}

\* A slice bound as Python reads it: a negative bound counts from the end
SliceBound(text, i) ==
    IF i < 0 THEN Max(i + text.len, 0) ELSE Min(i, text.len)

\* text.rfind('.', start, end)
RFind(text, start, end) ==
    LET found == {p \in text.periods :
                     SliceBound(text, start) <= p /\ p < SliceBound(text, end)}
    IN  IF found = {} THEN -1
        ELSE CHOOSE p \in found : \A q \in found : q <= p

\* end as the loop body computes it from start (lines 93-99)
ChunkEnd(text, start) ==
    LET end == start + chunk_size
        last_period == RFind(text, start, end)
    IN  IF end < text.len /\ last_period # -1 THEN last_period + 1 ELSE end

\* text[start:end].strip() is not empty
NonEmptyChunk(text, start, end) == SliceBound(text, start) < SliceBound(text, end)

\* _create_chunks(text): chunks = [], start = 0
CreateChunks ==
    /\ ck.pc = "none"
    /\ \E text \in Texts :
          ck' = [pc |-> "loop", text |-> text, start |-> 0, chunks |-> 0,
                 turns |-> 0]
    /\ UNCHANGED <<retrieverVars, gc, engineVars, storeVars, expanderVars, ingestVars,
                   reportVars, wt, sv>>

\* One turn of the while loop; chunks counts the chunks appended, up to
\* MaxChunks, and turns is the number of turns taken, modulo 2
ChunkLoop ==
    /\ ck.pc = "loop"
    /\ ck.start < ck.text.len
    /\ LET end == ChunkEnd(ck.text, ck.start)
       IN  ck' = [ck EXCEPT !.start = end - chunk_overlap,
                            !.turns = (@ + 1) % 2,
                            !.chunks = IF NonEmptyChunk(ck.text, ck.start, end)
                                       THEN Min(@ + 1, MaxChunks) ELSE @]
    /\ UNCHANGED <<retrieverVars, gc, engineVars, storeVars, expanderVars, ingestVars,
                   reportVars, wt, sv>>

\* start >= len(text): return chunks
ChunksReturn ==
    /\ ck.pc = "loop"
    /\ ck.start >= ck.text.len
    /\ ck' = [ck EXCEPT !.pc = "returned"]
    /\ UNCHANGED <<retrieverVars, gc, engineVars, storeVars, expanderVars, ingestVars,
                   reportVars, wt, sv>>

\* The caller takes the chunks
ChunksTaken ==
    /\ ck.pc = "returned"
    /\ ck' = NoChunking
    /\ UNCHANGED <<retrieverVars, gc, engineVars, storeVars, expanderVars, ingestVars,
                   reportVars, wt, sv>>

ChunksInit == RetrieverInit

ChunksNext == CreateChunks \/ ChunkLoop \/ ChunksReturn \/ ChunksTaken

\* The function runs on: a turn of the loop that can be taken is taken, and
\* so is the return
SpecChunks ==
    /\ ChunksInit
    /\ [][ChunksNext]_vars
    /\ WF_vars(ChunkLoop)
    /\ WF_vars(ChunksReturn)

\* C39 as stated: _create_chunks terminates for every text with chunk_size
\* 500 and chunk_overlap 50: a call that has entered its loop returns.
C39_CreateChunksTerminates ==
    (ck.pc = "loop") ~> (ck.pc = "returned")
====
